---- MODULE Spec2Model ----
(***************************************************************************)
(* A model of chassis: the layout parsers, the validator, the exporter and *)
(* the filesystem generator, together with the build command that chains   *)
(* them.  Go strings are sequences of one-character strings, so that       *)
(* trimming, splitting, joining and rendering are computed as the code     *)
(* computes them.                                                          *)
(***************************************************************************)
EXTENDS Integers, Sequences, FiniteSets, TLC

VARIABLES
    pc,         \* position of the command being run
    goos,       \* runtime.GOOS of the build
    format,     \* parse.Format selected for the input
    input,      \* the input document (text lines, or a decoded JSON value)
    indentSize, \* the --indent flag
    nodes,      \* the forest ([]*parse.Node), mutated in place by the stages
    perr,       \* error returned by the parser
    verr,       \* error returned by validate.Validate
    fs0,        \* the filesystem when the command started
    fs,         \* the filesystem now
    todo,       \* generateNode calls still to be made, in call order
    phase,      \* position inside the generateNode call at the head of todo
    result,     \* generate.Result
    gerr,       \* error returned by Generator.Generate
    run,        \* how many times Generate has been called on this forest
    first,      \* result, error and filesystem at the end of the first call
    raced,      \* entries another process created while Generate was running
    out         \* text written by the exporter, and the forest parsed back

vars == <<pc, goos, format, input, indentSize, nodes, perr, verr, fs0, fs,
          todo, phase, result, gerr, run, first, raced, out>>

----------------------------------------------------------------------------
(* Characters and Go string functions                                      *)

SP == " "
TAB == "\t"
SLASH == "/"
HASH == "#"
DOT == "."
CTL == "^A"     \* stands for the control character U+0001

\* the byte value of a character (strings compare bytewise in Go)
CharCode(c) ==
    CASE c = CTL -> 1
      [] c = TAB -> 9
      [] c = SP -> 32
      [] c = HASH -> 35
      [] c = DOT -> 46
      [] c = SLASH -> 47
      [] c = "A" -> 65
      [] c = "B" -> 66
      [] c = "T" -> 84
      [] c = "a" -> 97
      [] c = "b" -> 98
      [] c = "c" -> 99
      [] c = "t" -> 116
      [] c = "e" -> 101
      [] c = "g" -> 103
      [] c = "i" -> 105
      [] c = "m" -> 109
      [] c = "n" -> 110
      [] c = "o" -> 111
      [] c = "p" -> 112
      [] c = "r" -> 114
      [] c = "s" -> 115
      [] c = "u" -> 117
      [] c = "~" -> 126

\* unicode.ToLower on the ASCII letters
LowerChar(c) ==
    CASE c = "A" -> "a"
      [] c = "B" -> "b"
      [] c = "C" -> "c"
      [] c = "D" -> "d"
      [] c = "E" -> "e"
      [] c = "F" -> "f"
      [] c = "G" -> "g"
      [] c = "H" -> "h"
      [] c = "I" -> "i"
      [] c = "J" -> "j"
      [] c = "K" -> "k"
      [] c = "L" -> "l"
      [] c = "M" -> "m"
      [] c = "N" -> "n"
      [] c = "O" -> "o"
      [] c = "P" -> "p"
      [] c = "Q" -> "q"
      [] c = "R" -> "r"
      [] c = "S" -> "s"
      [] c = "T" -> "t"
      [] c = "U" -> "u"
      [] c = "V" -> "v"
      [] c = "W" -> "w"
      [] c = "X" -> "x"
      [] c = "Y" -> "y"
      [] c = "Z" -> "z"
      [] OTHER -> c

\* strings.ToLower
ToLower(s) == [i \in 1..Len(s) |-> LowerChar(s[i])]

\* the < of Go strings: bytewise lexicographic
RECURSIVE StrLess(_, _)
StrLess(s, t) ==
    IF t = <<>> THEN FALSE
    ELSE IF s = <<>> THEN TRUE
    ELSE IF CharCode(Head(s)) # CharCode(Head(t))
         THEN CharCode(Head(s)) < CharCode(Head(t))
    ELSE StrLess(Tail(s), Tail(t))

\* unicode.IsSpace on the characters of the model
IsSpace(c) == c \in {SP, TAB}

RECURSIVE TrimLeft(_)
TrimLeft(s) == IF s # <<>> /\ IsSpace(Head(s)) THEN TrimLeft(Tail(s)) ELSE s

RECURSIVE TrimRight(_)
TrimRight(s) ==
    IF s # <<>> /\ IsSpace(s[Len(s)]) THEN TrimRight(SubSeq(s, 1, Len(s) - 1))
    ELSE s

\* strings.TrimSpace
TrimSpace(s) == TrimRight(TrimLeft(s))

\* strings.HasPrefix, strings.HasSuffix, strings.TrimSuffix, strings.Contains
HasPrefix(s, p) == Len(s) >= Len(p) /\ SubSeq(s, 1, Len(p)) = p
HasSuffix(s, p) == Len(s) >= Len(p) /\ SubSeq(s, Len(s) - Len(p) + 1, Len(s)) = p
TrimSuffix(s, p) == IF HasSuffix(s, p) THEN SubSeq(s, 1, Len(s) - Len(p)) ELSE s
Contains(s, c) == \E i \in 1..Len(s) : s[i] = c
ContainsStr(s, p) == \E i \in 1..(Len(s) - Len(p) + 1) : SubSeq(s, i, i + Len(p) - 1) = p

\* strings.Repeat
RECURSIVE Repeat(_, _)
Repeat(s, n) == IF n <= 0 THEN <<>> ELSE s \o Repeat(s, n - 1)

\* strings.Split(s, "/"): the segments between the separators
RECURSIVE SplitAcc(_, _)
SplitAcc(s, cur) ==
    IF s = <<>> THEN <<cur>>
    ELSE IF Head(s) = SLASH THEN <<cur>> \o SplitAcc(Tail(s), <<>>)
    ELSE SplitAcc(Tail(s), Append(cur, Head(s)))

Split(s) == SplitAcc(s, <<>>)

\* strings.Join(segs, "/")
RECURSIVE JoinSegs(_)
JoinSegs(segs) ==
    IF segs = <<>> THEN <<>>
    ELSE IF Len(segs) = 1 THEN segs[1]
    ELSE segs[1] \o <<SLASH>> \o JoinSegs(Tail(segs))

\* the element stack of filepath.Clean: "" and "." are dropped, ".." removes
\* the element before it, stays in front of a relative path, and is dropped
\* at the root of a rooted one
RECURSIVE CleanSegs(_, _, _)
CleanSegs(segs, acc, rooted) ==
    IF segs = <<>> THEN acc
    ELSE LET e == Head(segs)
             acc2 == IF e = <<>> \/ e = <<DOT>> THEN acc
                     ELSE IF e = <<DOT, DOT>>
                          THEN IF acc # <<>> /\ acc[Len(acc)] # <<DOT, DOT>>
                               THEN SubSeq(acc, 1, Len(acc) - 1)
                               ELSE IF rooted THEN acc ELSE Append(acc, e)
                     ELSE Append(acc, e)
         IN CleanSegs(Tail(segs), acc2, rooted)

IsAbs(p) == p # <<>> /\ p[1] = SLASH

\* filepath.Clean
Clean(p) ==
    IF p = <<>> THEN <<DOT>>
    ELSE LET segs == CleanSegs(Split(p), <<>>, IsAbs(p))
         IN IF IsAbs(p) THEN <<SLASH>> \o JoinSegs(segs)
            ELSE IF segs = <<>> THEN <<DOT>> ELSE JoinSegs(segs)

\* filepath.Join of two elements: empty elements are ignored, the rest is
\* joined with the separator and cleaned
Join(a, b) ==
    IF a = <<>> /\ b = <<>> THEN <<>>
    ELSE IF a = <<>> THEN Clean(b)
    ELSE IF b = <<>> THEN Clean(a)
    ELSE Clean(a \o <<SLASH>> \o b)

\* filepath.Dir
Dir(p) ==
    LET segs == Split(p)
    IN Clean(IF IsAbs(p) THEN <<SLASH>> \o JoinSegs(SubSeq(segs, 2, Len(segs) - 1))
             ELSE JoinSegs(SubSeq(segs, 1, Len(segs) - 1)))

----------------------------------------------------------------------------
(* parse.Node and the errors of package parse                              *)

NoErr == [kind |-> "nil"]

\* &Node{Name: name, IsDir: isDir, Line: line}
NewNode(name, isDir, line) ==
    [Name |-> name, IsDir |-> isDir, Children |-> <<>>, Path |-> <<>>,
     Line |-> line]

NewParseError(line, message, args) ==
    [kind |-> "ParseError", Line |-> line, Column |-> 0,
     Message |-> message, Args |-> args]

NewIndentationError(line, column, expected, got) ==
    [kind |-> "IndentationError", Line |-> line, Column |-> column,
     Expected |-> expected, Got |-> got]

\* IndentationError.Error: the wording it chooses for the message
IndentationErrorMessage(e) ==
    IF \/ (e.Expected = CharCode(SP) /\ e.Got = CharCode(TAB))
       \/ (e.Expected = CharCode(TAB) /\ e.Got = CharCode(SP))
    THEN "inconsistent indentation: cannot mix %s and %s"
    ELSE "inconsistent indentation: expected %d %s, got %d %s"

\* the node reached from the root list by a sequence of child indices
RECURSIVE NodeAt(_, _)
NodeAt(list, ip) ==
    IF Len(ip) = 1 THEN list[ip[1]]
    ELSE NodeAt(list[ip[1]].Children, Tail(ip))

\* a parser that puts a new child in front of its siblings
RECURSIVE PrependChild(_, _, _)
PrependChild(list, ip, node) ==
    IF ip = <<>> THEN <<node>> \o list
    ELSE [list EXCEPT ![ip[1]].Children = PrependChild(@, Tail(ip), node)]

\* parent.Children = append(parent.Children, node), parent given by its indices
RECURSIVE AppendChild(_, _, _)
AppendChild(list, ip, node) ==
    IF ip = <<>> THEN Append(list, node)
    ELSE [list EXCEPT ![ip[1]].Children = AppendChild(@, Tail(ip), node)]

\* Node.CountNodes, summed over a list
RECURSIVE CountNodes(_)
CountNodes(list) ==
    IF list = <<>> THEN 0
    ELSE 1 + CountNodes(Head(list).Children) + CountNodes(Tail(list))

\* the index sequences of all nodes of a forest, in pre-order
RECURSIVE PreOrder(_, _, _)
PreOrder(list, prefix, i) ==
    IF i > Len(list) THEN <<>>
    ELSE <<Append(prefix, i)>>
         \o PreOrder(list[i].Children, Append(prefix, i), 1)
         \o PreOrder(list, prefix, i + 1)

AllNodes(forest) == PreOrder(forest, <<>>, 1)

----------------------------------------------------------------------------
(* The indentation parser (PlainTextParser)                                *)

NewPlainTextParser(indentWidth) ==
    [IndentWidth |-> indentWidth, AutoDetect |-> indentWidth <= 0]

\* the whitespace loop of parseLine: i is the 1-based position in text,
\* ic the indent character seen so far in this line (0: none yet)
RECURSIVE countIndent(_, _, _, _, _)
countIndent(text, lineNum, i, ic, n) ==
    IF i > Len(text) \/ ~(text[i] \in {SP, TAB})
    THEN [err |-> NoErr, indent |-> n, indentChar |-> ic]
    ELSE IF ic = 0
         THEN countIndent(text, lineNum, i + 1, CharCode(text[i]), n + 1)
    ELSE IF ic # CharCode(text[i])
         THEN [err |-> NewIndentationError(lineNum, i, ic, CharCode(text[i])),
               indent |-> n, indentChar |-> ic]
    ELSE countIndent(text, lineNum, i + 1, ic, n + 1)

parseLine(text, lineNum) ==
    LET ws == countIndent(text, lineNum, 1, 0, 0)
        trimmed == TrimSpace(text)
        isDir == HasSuffix(trimmed, <<SLASH>>)
        content == IF isDir THEN TrimSuffix(trimmed, <<SLASH>>) ELSE trimmed
        line == [content |-> content, indent |-> ws.indent,
                 indentChar |-> ws.indentChar, isDir |-> isDir,
                 isComment |-> FALSE, lineNum |-> lineNum]
    IN IF ws.err # NoErr THEN [line |-> line, err |-> ws.err]
       ELSE IF HasPrefix(trimmed, <<HASH>>)
            THEN [line |-> [line EXCEPT !.content = trimmed, !.isDir = FALSE,
                                        !.isComment = TRUE],
                  err |-> NoErr]
       ELSE IF content = <<>>
            THEN [line |-> line,
                  err |-> NewParseError(lineNum, "empty name after trimming", <<>>)]
       ELSE IF Contains(content, SLASH)
            THEN [line |-> line,
                  err |-> NewParseError(lineNum,
                      "invalid name '%s': names cannot contain '/' except at the end for directories",
                      <<content>>)]
       ELSE [line |-> line, err |-> NoErr]

\* the first pass of Parse: blank lines and comments are skipped, the first
\* line that fails to parse ends the pass
RECURSIVE readLines(_, _, _)
readLines(text, lineNum, lines) ==
    IF lineNum > Len(text) THEN [lines |-> lines, err |-> NoErr]
    ELSE IF TrimSpace(text[lineNum]) = <<>>
         THEN readLines(text, lineNum + 1, lines)
    ELSE LET parsed == parseLine(text[lineNum], lineNum)
         IN IF parsed.err # NoErr THEN [lines |-> <<>>, err |-> parsed.err]
            ELSE IF parsed.line.isComment
                 THEN readLines(text, lineNum + 1, lines)
            ELSE readLines(text, lineNum + 1, Append(lines, parsed.line))

\* detectIndentation: the first positive difference between consecutive
\* lines, 2 when there is none
RECURSIVE firstIncrease(_, _)
firstIncrease(lines, i) ==
    IF i > Len(lines) THEN 0
    ELSE IF lines[i].indent > lines[i - 1].indent
         THEN lines[i].indent - lines[i - 1].indent
    ELSE firstIncrease(lines, i + 1)

detectIndentation(p, lines) ==
    LET w == firstIncrease(lines, 2)
        w2 == IF w > 0 THEN w ELSE p.IndentWidth
    IN [p EXCEPT !.IndentWidth = IF w2 <= 0 THEN 2 ELSE w2]

\* one iteration of the loop of buildTree.  st = [roots, stack, err]; the
\* stack holds, for each depth, the indices that lead to the current node
buildLine(p, st, line) ==
    LET bad == line.indent > 0 /\ line.indent % p.IndentWidth # 0
        depth == IF line.indent > 0 THEN line.indent \div p.IndentWidth ELSE 0
        node == NewNode(line.content, line.isDir, line.lineNum)
        stack == IF Len(st.stack) > depth THEN SubSeq(st.stack, 1, depth)
                 ELSE st.stack
    IN IF bad
       THEN [st EXCEPT !.err = NewIndentationError(line.lineNum, line.indent,
                                   p.IndentWidth, line.indent % p.IndentWidth)]
       ELSE IF depth > Len(stack)
            THEN [st EXCEPT !.err = NewParseError(line.lineNum,
                     "invalid indentation: jumped from level %d to %d (can only increase by 1)",
                     <<Len(stack), depth>>)]
       ELSE IF depth = 0
            THEN [roots |-> Append(st.roots, node),
                  stack |-> <<[node |-> <<Len(st.roots) + 1>>, depth |-> 0]>>,
                  err |-> NoErr]
       ELSE LET pip == stack[Len(stack)].node
                parent == NodeAt(st.roots, pip)
                child == [node EXCEPT !.Path = parent.Path \o <<SLASH>> \o node.Name]
                item == [node |-> Append(pip, Len(parent.Children) + 1),
                         depth |-> depth]
            IN IF ~parent.IsDir
               THEN [st EXCEPT !.err = NewParseError(line.lineNum,
                        "cannot add children to file '%s' (only directories can have children)",
                        <<parent.Name>>)]
               ELSE [roots |-> AppendChild(st.roots, pip, child),
                     stack |-> IF depth = Len(stack) - 1
                               THEN [stack EXCEPT ![Len(stack)] = item]
                               ELSE Append(stack, item),
                     err |-> NoErr]

RECURSIVE buildLoop(_, _, _, _)
buildLoop(p, lines, i, st) ==
    IF i > Len(lines) \/ st.err # NoErr THEN st
    ELSE buildLoop(p, lines, i + 1, buildLine(p, st, lines[i]))

buildTree(p, lines) ==
    IF Len(lines) = 0 THEN [nodes |-> <<>>, err |-> NoErr]
    ELSE IF lines[1].indent > 0
         THEN [nodes |-> <<>>,
               err |-> NewParseError(lines[1].lineNum,
                                     "first line must not be indented", <<>>)]
    ELSE LET st == buildLoop(p, lines, 1,
                       [roots |-> <<>>, stack |-> <<>>, err |-> NoErr])
         IN IF st.err # NoErr THEN [nodes |-> <<>>, err |-> st.err]
            ELSE [nodes |-> st.roots, err |-> NoErr]

\* PlainTextParser.Parse
PlainTextParse(text, indentWidth) ==
    LET p == NewPlainTextParser(indentWidth)
        rd == readLines(text, 1, <<>>)
    IN IF rd.err # NoErr THEN [nodes |-> <<>>, err |-> rd.err]
       ELSE IF Len(rd.lines) = 0 THEN [nodes |-> <<>>, err |-> NoErr]
       ELSE buildTree(IF p.AutoDetect THEN detectIndentation(p, rd.lines) ELSE p,
                      rd.lines)

----------------------------------------------------------------------------
(* validate.Validate                                                       *)

maxPathWindows == 260
maxPathUnix == 4096

NewValidationError(path, message, type) ==
    [kind |-> "ValidationError", Path |-> path, Message |-> message,
     Type |-> type]

\* filepath.Ext: the suffix beginning at the last dot of the last element
RECURSIVE lastDot(_, _)
lastDot(s, i) ==
    IF i < 1 \/ s[i] = SLASH THEN 0
    ELSE IF s[i] = DOT THEN i
    ELSE lastDot(s, i - 1)

Ext(s) ==
    LET i == lastDot(s, Len(s))
    IN IF i = 0 THEN <<>> ELSE SubSeq(s, i, Len(s))

forbiddenChars == <<"<", ">", ":", "\"", "|", "?", "*">>

\* validatePathCharacters: "" when the name is acceptable, else the message.
\* There is no null byte among the characters of the model.
validatePathCharacters(name, os) ==
    IF os = "windows" /\ \E i \in 1..Len(forbiddenChars) : Contains(name, forbiddenChars[i])
    THEN "character '%c' not allowed in Windows paths"
    ELSE IF os = "windows" /\ (HasSuffix(name, <<DOT>>) \/ HasSuffix(name, <<SP>>))
    THEN "paths cannot end with dots or spaces on Windows"
    ELSE IF \E i \in 1..Len(name) : CharCode(name[i]) < 32
    THEN "control characters not allowed in paths"
    ELSE ""

reservedNames ==
    {<<"C", "O", "N">>, <<"P", "R", "N">>, <<"A", "U", "X">>, <<"N", "U", "L">>}
    \cup {<<"C", "O", "M", d>> : d \in {"1", "2", "3", "4", "5", "6", "7", "8", "9"}}
    \cup {<<"L", "P", "T", d>> : d \in {"1", "2", "3", "4", "5", "6", "7", "8", "9"}}

UpperChar(c) ==
    CASE c = "a" -> "A"
      [] c = "b" -> "B"
      [] c = "c" -> "C"
      [] c = "t" -> "T"
      [] OTHER -> c

\* validateWindowsReservedNames
validateWindowsReservedNames(name) ==
    LET base == TrimSuffix(name, Ext(name))
        upper == [i \in 1..Len(base) |-> UpperChar(base[i])]
    IN IF upper \in reservedNames THEN "'%s' is a reserved name on Windows"
       ELSE ""

\* validatePathLength
validatePathLength(path, os) ==
    LET maxLen == IF os = "windows" THEN maxPathWindows ELSE maxPathUnix
    IN IF Len(path) > maxLen THEN "path length %d exceeds maximum of %d" ELSE ""

\* a validator that compares paths as they are written on every platform
pathKeyExact(fullPath, os) == fullPath

\* a validator that folds the case of paths on every platform
pathKeyFolded(fullPath, os) == ToLower(fullPath)

\* the key under which validateNode remembers a path
pathKey(fullPath, os) == IF os = "windows" THEN ToLower(fullPath) ELSE fullPath

\* validateNode and the loop over its siblings.  v = [paths, errors] is the
\* validator; the result carries the list with the recomputed Path fields.
RECURSIVE validateList(_, _, _, _, _)
validateNode(node, parentPath, v, os) ==
    LET fullPath == Join(parentPath, node.Name)
        n1 == [node EXCEPT !.Path = fullPath]
        fail(path, msg, type) ==
            [node |-> n1,
             v |-> [v EXCEPT !.errors = Append(@, NewValidationError(path, msg, type))]]
        chars == validatePathCharacters(node.Name, os)
        resv == IF os = "windows" THEN validateWindowsReservedNames(node.Name) ELSE ""
        long == validatePathLength(fullPath, os)
    IN IF node.Name = <<>>
       THEN fail(parentPath, "empty name not allowed", "ErrorInvalidCharacters")
       ELSE IF node.Name = <<DOT, DOT>> \/ HasPrefix(node.Name, <<DOT, DOT, SLASH>>)
       THEN fail(fullPath, "path traversal not allowed: '%s'", "ErrorPathTraversal")
       ELSE IF chars # ""
       THEN fail(fullPath, chars, "ErrorInvalidCharacters")
       ELSE IF resv # ""
       THEN fail(fullPath, resv, "ErrorReservedName")
       ELSE IF long # ""
       THEN fail(fullPath, long, "ErrorPathTooLong")
       ELSE IF pathKey(fullPath, os) \in v.paths
       THEN fail(fullPath, "duplicate path", "ErrorDuplicatePath")
       ELSE LET sub == validateList(node.Children, 1, fullPath,
                           [v EXCEPT !.paths = @ \cup {pathKey(fullPath, os)}], os)
            IN [node |-> [n1 EXCEPT !.Children = sub.list], v |-> sub.v]

validateList(list, i, parentPath, v, os) ==
    IF i > Len(list) THEN [list |-> list, v |-> v]
    ELSE LET r == validateNode(list[i], parentPath, v, os)
         IN validateList([list EXCEPT ![i] = r.node], i + 1, parentPath, r.v, os)

\* a validator that returns the last error the walk recorded
ValidateLastError(forest, os) ==
    LET r == validateList(forest, 1, <<>>, [paths |-> {}, errors |-> <<>>], os)
    IN [nodes |-> r.list,
        err |-> IF Len(r.v.errors) > 0 THEN r.v.errors[Len(r.v.errors)] ELSE NoErr,
        errors |-> r.v.errors]

\* Validate: the forest as the walk leaves it, and the first error if any
Validate(forest, os) ==
    LET r == validateList(forest, 1, <<>>, [paths |-> {}, errors |-> <<>>], os)
    IN [nodes |-> r.list,
        err |-> IF Len(r.v.errors) > 0 THEN r.v.errors[1] ELSE NoErr,
        errors |-> r.v.errors]

----------------------------------------------------------------------------
(* The JSON parser.  The input is the value json.Unmarshal decodes:        *)
(* [t |-> "null"], [t |-> "string", s |-> chars], [t |-> "number"],         *)
(* [t |-> "bool"], [t |-> "array"] or [t |-> "object", m |-> key :> value]. *)

JNull == [t |-> "null"]
JString(str) == [t |-> "string", s |-> str]
JNumber == [t |-> "number"]
JObject(m) == [t |-> "object", m |-> m]
JEmpty == [t |-> "object", m |-> <<>>]

\* a parser that visits the keys of a map in descending order
RECURSIVE sortStringsDescending(_)
sortStringsDescending(S) ==
    IF S = {} THEN <<>>
    ELSE LET most == CHOOSE k \in S : \A o \in S : ~StrLess(k, o)
         IN <<most>> \o sortStringsDescending(S \ {most})

\* sort.Strings over the keys of a map
RECURSIVE sortStrings(_)
sortStrings(S) ==
    IF S = {} THEN <<>>
    ELSE LET least == CHOOSE k \in S : \A o \in S : ~StrLess(o, k)
         IN <<least>> \o sortStrings(S \ {least})

Errorf(message, args) == [kind |-> "error", Message |-> message, Args |-> args]

RECURSIVE parseObject(_, _)
RECURSIVE parseKeys(_, _, _, _, _)
parseKeys(obj, keys, i, parentPath, acc) ==
    IF i > Len(keys) THEN [nodes |-> acc, err |-> NoErr]
    ELSE LET name == keys[i]
             value == obj[name]
             path == IF parentPath # <<>> THEN parentPath \o <<SLASH>> \o name
                     ELSE name
             node == [Name |-> name, IsDir |-> FALSE, Children |-> <<>>,
                      Path |-> path, Line |-> 0]
         IN IF value.t = "object"
            THEN LET sub == IF DOMAIN value.m = {} THEN [nodes |-> <<>>, err |-> NoErr]
                            ELSE parseObject(value.m, path)
                 IN IF sub.err # NoErr THEN [nodes |-> <<>>, err |-> sub.err]
                    ELSE parseKeys(obj, keys, i + 1, parentPath,
                             Append(acc, [node EXCEPT !.IsDir = TRUE,
                                                      !.Children = sub.nodes]))
            ELSE IF value.t = "null"
            THEN parseKeys(obj, keys, i + 1, parentPath, Append(acc, node))
            ELSE IF value.t = "string"
            THEN IF value.s = <<>>
                 THEN parseKeys(obj, keys, i + 1, parentPath, Append(acc, node))
                 ELSE [nodes |-> <<>>,
                       err |-> Errorf("unexpected string value for '%s': files should have null or empty string value, got %q",
                                      <<name>>)]
            ELSE [nodes |-> <<>>,
                  err |-> Errorf("unexpected value type for '%s': %T (use null for files, {} for directories)",
                                 <<name>>)]

parseObject(obj, parentPath) ==
    parseKeys(obj, sortStrings(DOMAIN obj), 1, parentPath, <<>>)

\* JSONParser.Parse, from the decoded content on
JSONParse(content) ==
    IF content.t = "null" THEN [nodes |-> <<>>, err |-> NoErr]
    ELSE IF content.t = "object" THEN parseObject(content.m, <<>>)
    ELSE IF content.t = "array"
    THEN [nodes |-> <<>>,
          err |-> Errorf("JSON root must be an object, not an array", <<>>)]
    ELSE [nodes |-> <<>>, err |-> Errorf("unexpected JSON root type: %T", <<>>)]

----------------------------------------------------------------------------
(* The YAML parser.  The input is the value yaml.Unmarshal decodes: as for *)
(* JSON, and [t |-> "gmap"] for a mapping with a key that is not a string,  *)
(* which yaml.v3 decodes to map[interface{}]interface{}.                   *)

YGeneralMap == [t |-> "gmap"]

RECURSIVE parseMap(_, _)
RECURSIVE parseMapKeys(_, _, _, _, _)
parseMapKeys(m, keys, i, parentPath, acc) ==
    IF i > Len(keys) THEN [nodes |-> acc, err |-> NoErr]
    ELSE LET name == keys[i]
             value == m[name]
             path == IF parentPath # <<>> THEN parentPath \o <<SLASH>> \o name
                     ELSE name
             node == [Name |-> name, IsDir |-> FALSE, Children |-> <<>>,
                      Path |-> path, Line |-> 0]
         IN IF value.t = "object"
            THEN LET sub == parseMap(value.m, path)
                 IN IF sub.err # NoErr THEN [nodes |-> <<>>, err |-> sub.err]
                    ELSE parseMapKeys(m, keys, i + 1, parentPath,
                             Append(acc, [node EXCEPT !.IsDir = TRUE,
                                                      !.Children = sub.nodes]))
            ELSE IF value.t = "null"
            THEN parseMapKeys(m, keys, i + 1, parentPath, Append(acc, node))
            ELSE IF value.t = "string"
            THEN IF value.s = <<>>
                 THEN parseMapKeys(m, keys, i + 1, parentPath, Append(acc, node))
                 ELSE [nodes |-> <<>>,
                       err |-> Errorf("unexpected string value for '%s': files should have null or empty string value",
                                      <<name>>)]
            ELSE IF value.t = "gmap"
            THEN [nodes |-> <<>>,
                  err |-> Errorf("non-string key in YAML at '%s'", <<name>>)]
            ELSE [nodes |-> <<>>,
                  err |-> Errorf("unexpected value type for '%s': %T (use null for files, {} for empty directories)",
                                 <<name>>)]

parseMap(m, parentPath) ==
    parseMapKeys(m, sortStrings(DOMAIN m), 1, parentPath, <<>>)

\* a parser that takes every root that is no map for an empty document
YAMLParseLenient(content) ==
    IF content.t = "object" THEN parseMap(content.m, <<>>)
    ELSE [nodes |-> <<>>, err |-> NoErr]

\* YAMLParser.Parse, from the decoded content on
YAMLParse(content) ==
    IF content.t = "null" THEN [nodes |-> <<>>, err |-> NoErr]
    ELSE IF content.t = "object" THEN parseMap(content.m, <<>>)
    ELSE IF content.t = "array"
    THEN [nodes |-> <<>>,
          err |-> Errorf("YAML root must be an object, not an array", <<>>)]
    ELSE [nodes |-> <<>>, err |-> Errorf("unexpected YAML root type: %T", <<>>)]

----------------------------------------------------------------------------
(* The exporter                                                            *)

NL == "\n"

\* the less function handed to sort.Slice by sortNodes
nodeLess(x, y) ==
    IF x.IsDir # y.IsDir THEN x.IsDir
    ELSE StrLess(ToLower(x.Name), ToLower(y.Name))

\* sortNodes: sort.Slice is not stable, so every arrangement of the list
\* that is ordered by nodeLess is a possible outcome
sortNodes(list) ==
    {arr \in {[i \in 1..Len(list) |-> list[f[i]]] : f \in Permutations(1..Len(list))} :
        \A i, j \in 1..Len(list) : i < j => ~nodeLess(arr[j], arr[i])}

\* all lists whose i-th element is drawn from sets[i]
RECURSIVE Products(_)
Products(sets) ==
    IF sets = <<>> THEN {<<>>}
    ELSE {<<h>> \o t : h \in Head(sets), t \in Products(Tail(sets))}

\* the forests the exporter can leave behind: the root list and every
\* children list sorted by sortNodes (the exporter sorts them in place)
RECURSIVE sortedForests(_)
sortedForests(list) ==
    UNION {Products([i \in 1..Len(arr) |->
                        {[arr[i] EXCEPT !.Children = c] :
                            c \in sortedForests(arr[i].Children)}]) :
           arr \in sortNodes(list)}

\* an exporter that writes directories without their trailing slash
simpleLineBare(node, depth) == Repeat(<<SP, SP>>, depth) \o node.Name \o <<NL>>

\* the line writeSimpleTreeNode writes for a node
simpleLine(node, depth) ==
    LET indent == Repeat(<<SP, SP>>, depth)
        name == IF node.IsDir THEN node.Name \o <<SLASH>> ELSE node.Name
    IN indent \o name \o <<NL>>

\* writeSimpleTreeNode over a list whose levels are already sorted
RECURSIVE writeSimpleTree(_, _)
writeSimpleTree(list, depth) ==
    IF list = <<>> THEN <<>>
    ELSE LET node == Head(list)
         IN simpleLine(node, depth)
            \o writeSimpleTree(node.Children, depth + 1)
            \o writeSimpleTree(Tail(list), depth)

\* the box-drawing characters, one element of a string each
ELBOW == "elbow"   \* U+2514, up and right
TEE == "tee"       \* U+251C, vertical and right
HBAR == "hbar"     \* U+2500, horizontal
VBAR == "vbar"     \* U+2502, vertical

\* the line writeTreeNode writes for a node
treeLine(node, indent, isLast) ==
    LET name == IF node.IsDir THEN node.Name \o <<SLASH>> ELSE node.Name
    IN IF indent = <<>> THEN name \o <<NL>>
       ELSE IF isLast THEN indent \o <<ELBOW, HBAR, HBAR, SP>> \o name \o <<NL>>
       ELSE indent \o <<TEE, HBAR, HBAR, SP>> \o name \o <<NL>>

\* the indent writeTreeNode hands to the children of a node
childIndent(indent, isLast) ==
    IF indent = <<>> THEN <<>>
    ELSE IF isLast THEN indent \o <<SP, SP, SP, SP>>
    ELSE indent \o <<VBAR, SP, SP, SP>>

\* writeTreeNode over the children list[i..], whose levels are already
\* sorted; indent and isLast are those of the parent
RECURSIVE writeTreeChildren(_, _, _, _)
writeTreeChildren(list, i, indent, isLast) ==
    IF i > Len(list) THEN <<>>
    ELSE LET isChildLast == (i = Len(list))
         IN treeLine(list[i], childIndent(indent, isLast), isChildLast)
            \o writeTreeChildren(list[i].Children, 1,
                                 childIndent(indent, isLast), isChildLast)
            \o writeTreeChildren(list, i + 1, indent, isLast)

\* the loop of ToTree over the root nodes, from the i-th on
RECURSIVE writeTree(_, _)
writeTree(list, i) ==
    IF i > Len(list) THEN <<>>
    ELSE treeLine(list[i], <<>>, TRUE)
         \o writeTreeChildren(list[i].Children, 1, <<>>, TRUE)
         \o writeTree(list, i + 1)

\* an exporter that writes a directory without children as null
mapValueNull(node, sub) ==
    IF node.IsDir /\ Len(node.Children) > 0 THEN JObject(sub) ELSE JNull

\* the value nodesToMap stores under a node's name; sub is the map of the
\* node's children
mapValue(node, sub) ==
    IF node.IsDir
    THEN IF Len(node.Children) > 0 THEN JObject(sub) ELSE JEmpty
    ELSE JNull

\* nodesToMap over a list whose levels are already sorted: a later node
\* overwrites the entry of an earlier node of the same name
RECURSIVE nodesToMapFrom(_, _, _)
nodesToMapFrom(list, i, acc) ==
    IF i > Len(list) THEN acc
    ELSE LET node == list[i]
             value == mapValue(node, nodesToMapFrom(node.Children, 1, <<>>))
         IN nodesToMapFrom(list, i + 1,
                [k \in DOMAIN acc \cup {node.Name} |->
                    IF k = node.Name THEN value ELSE acc[k]])

nodesToMap(list) == nodesToMapFrom(list, 1, <<>>)

\* the tokens of a JSON text
Tok(kind, str) == [tok |-> kind, s |-> str]

\* json.MarshalIndent of the map: the members are written in the sorted
\* order of their keys
RECURSIVE Marshal(_)
RECURSIVE marshalMembers(_, _, _)
marshalMembers(m, keys, i) ==
    IF i > Len(keys) THEN <<>>
    ELSE (IF i > 1 THEN <<Tok(",", <<>>)>> ELSE <<>>)
         \o <<Tok("string", keys[i]), Tok(":", <<>>)>>
         \o Marshal(m[keys[i]])
         \o marshalMembers(m, keys, i + 1)

Marshal(v) ==
    IF v.t = "null" THEN <<Tok("null", <<>>)>>
    ELSE <<Tok("{", <<>>)>> \o marshalMembers(v.m, sortStrings(DOMAIN v.m), 1)
         \o <<Tok("}", <<>>)>>

\* json.Unmarshal into interface{}: the value at the head of the tokens and
\* the tokens after it
RECURSIVE unmarshalValue(_)
RECURSIVE unmarshalMembers(_, _)
unmarshalMembers(toks, m) ==
    IF Head(toks).tok = "}" THEN [val |-> JObject(m), rest |-> Tail(toks)]
    ELSE IF Head(toks).tok = "," THEN unmarshalMembers(Tail(toks), m)
    ELSE LET key == Head(toks).s
             r == unmarshalValue(Tail(Tail(toks)))
         IN unmarshalMembers(r.rest,
                [k \in DOMAIN m \cup {key} |-> IF k = key THEN r.val ELSE m[k]])

unmarshalValue(toks) ==
    IF Head(toks).tok = "null" THEN [val |-> JNull, rest |-> Tail(toks)]
    ELSE unmarshalMembers(Tail(toks), <<>>)

Unmarshal(toks) == unmarshalValue(toks).val

\* bufio.Scanner with ScanLines: the text between newlines, without a final
\* empty line
RECURSIVE scanLines(_, _)
scanLines(buf, cur) ==
    IF buf = <<>> THEN IF cur = <<>> THEN <<>> ELSE <<cur>>
    ELSE IF Head(buf) = NL THEN <<cur>> \o scanLines(Tail(buf), <<>>)
    ELSE scanLines(Tail(buf), Append(cur, Head(buf)))

----------------------------------------------------------------------------
(* The filesystem and package fsutil.  A filesystem maps the element lists *)
(* of the entries that exist to "dir", "file" or "link" (a symbolic link   *)
(* whose target is missing); the parent of every entry is a directory.     *)

\* the elements of a cleaned absolute path
Elems(p) == CleanSegs(Split(p), <<>>, TRUE)

\* the length of the longest prefix of k that is an entry
RECURSIVE known(_, _, _)
known(f, k, i) ==
    IF i < Len(k) /\ SubSeq(k, 1, i + 1) \in DOMAIN f THEN known(f, k, i + 1)
    ELSE i

\* os.Stat: the kind of the entry, or the errno
Stat(f, p) ==
    LET k == Elems(p)
        i == known(f, k, 0)
        at == f[SubSeq(k, 1, i)]
    IN IF i = Len(k) THEN (IF at = "link" THEN "ENOENT" ELSE at)
       ELSE IF at = "file" THEN "ENOTDIR" ELSE "ENOENT"

\* PathExists
PathExists(f, p) == Stat(f, p) \in {"dir", "file"}

\* os.MkdirAll on a path that Stat reports missing: the missing directories
\* are made from the top down; a file or a link on the way is an error
MkdirAll(f, p) ==
    LET k == Elems(p)
        i == known(f, k, 0)
        made == {SubSeq(k, 1, j) : j \in (i + 1)..Len(k)}
    IN IF f[SubSeq(k, 1, i)] # "dir"
       THEN [fs |-> f, err |-> Errorf("failed to create directory %s: %w", <<p>>)]
       ELSE [fs |-> [e \in DOMAIN f \cup made |->
                        IF e \in DOMAIN f THEN f[e] ELSE "dir"],
             err |-> NoErr]

\* SafeMkdir
SafeMkdir(f, p) ==
    LET st == Stat(f, p)
    IN IF st = "file"
       THEN [fs |-> f, err |-> Errorf("path exists but is not a directory: %s", <<p>>)]
       ELSE IF st = "dir" THEN [fs |-> f, err |-> NoErr]
       ELSE IF st # "ENOENT"
       THEN [fs |-> f, err |-> Errorf("failed to check directory: %w", <<p>>)]
       ELSE MkdirAll(f, p)

\* SafeCreateFile: os.OpenFile with O_CREATE|O_EXCL
SafeCreateFile(f, p) ==
    LET k == Elems(p)
    IN IF k \in DOMAIN f
       THEN [fs |-> f, err |-> Errorf("file already exists: %s", <<p>>)]
       ELSE IF Stat(f, Dir(p)) # "dir"
       THEN [fs |-> f, err |-> Errorf("failed to create file %s: %w", <<p>>)]
       ELSE [fs |-> [e \in DOMAIN f \cup {k} |-> IF e = k THEN "file" ELSE f[e]],
             err |-> NoErr]

\* EnsureDir
EnsureDir(f, p) ==
    LET dir == Dir(p)
    IN IF dir = <<DOT>> \/ dir = <<SLASH>> THEN [fs |-> f, err |-> NoErr]
       ELSE SafeMkdir(f, dir)

----------------------------------------------------------------------------
(* generate.Generate                                                       *)

\* filepath.Abs(options.TargetDir)
targetAbs == <<SLASH, "t">>

NewResult ==
    [Created |-> 0, Skipped |-> 0, Errors |-> <<>>, CreatedPaths |-> <<>>,
     SkippedPaths |-> <<>>]

\* fullPath of the generateNode call for the node with indices ip
RECURSIVE fullPathOf(_, _, _)
fullPathOf(list, ip, parentPath) ==
    LET fullPath == Join(parentPath, list[ip[1]].Name)
    IN IF Len(ip) = 1 THEN fullPath
       ELSE fullPathOf(list[ip[1]].Children, Tail(ip), fullPath)

\* the calls the loop over node.Children makes, in order
childCalls(forest, ip) ==
    [i \in 1..Len(NodeAt(forest, ip).Children) |-> Append(ip, i)]

\* a generator for which an existing directory blocks its contents
callsAfterSkipBlocked(forest, ip) == <<>>

\* the calls generateNode makes after it found the node's path on disk: a
\* directory node's children are still generated
callsAfterSkip(forest, ip) ==
    IF NodeAt(forest, ip).IsDir THEN childCalls(forest, ip) ELSE <<>>

\* a generator that reports every failed creation as an error
saysAlreadyExistsNever(err) == FALSE

\* strings.Contains(err.Error(), "already exists")
saysAlreadyExists(err) == err.Message = "file already exists: %s"

\* the calls left after a generateNode call returned an error: every
\* enclosing call returns it at once, so all that is left of the root node's
\* subtree is dropped and the loop of Generate goes on with the next root
RECURSIVE afterError(_, _)
afterError(calls, root) ==
    IF calls = <<>> THEN <<>>
    ELSE IF Head(calls)[1] = root THEN afterError(Tail(calls), root)
    ELSE calls

\* generateNode found fullPath on disk
skipNode(r, fullPath) ==
    [r EXCEPT !.Skipped = @ + 1, !.SkippedPaths = Append(@, fullPath)]

\* generateNode created fullPath
createNode(r, fullPath) ==
    [r EXCEPT !.Created = @ + 1, !.CreatedPaths = Append(@, fullPath)]

\* generateNode failed: it records the message and returns the error, and
\* the loop of Generate records the error it gets back
failNode(r, message, fullPath) ==
    [r EXCEPT !.Errors = Append(Append(@, Errorf(message, <<fullPath>>)),
                                Errorf(message, <<fullPath>>))]

----------------------------------------------------------------------------
(* The inputs of the model                                                 *)

MaxLines == 3   \* lines of an indentation-form input
MaxRaces == 1   \* entries another process creates while Generate runs
MaxRuns == 2    \* times the build command is run on the same input

SeqsUpTo(S, n) == UNION {[1..k -> S] : k \in 0..n}

\* layout files given to the build command: indentation form ...
BuildFirstLines == {<<"a">>, <<"a", SLASH>>, <<"b">>}

BuildLines ==
    {ind \o c : ind \in {<<>>, <<SP, SP>>, <<SP, SP, SP, SP>>},
                c \in BuildFirstLines}

BuildTexts ==
    {<<>>} \cup
    {<<h>> \o t : h \in BuildFirstLines, t \in SeqsUpTo(BuildLines, MaxLines - 1)}

\* ... and JSON documents
BuildKeys == {<<"a">>, <<"b">>, <<"a", SLASH, "b">>, <<DOT, SLASH, DOT, DOT, SLASH, "b">>}

BuildLeaves == {JNull, JEmpty, JString(<<>>), JNumber}

BuildValues ==
    BuildLeaves \cup {JObject(k :> v) : k \in {<<"a">>, <<"b">>}, v \in {JNull, JEmpty}}

BuildJSON ==
    {JNull, [t |-> "array"]}
    \cup {JObject(k :> v) : k \in BuildKeys, v \in BuildValues}
    \cup {JObject(ks[1] :> v1 @@ ks[2] :> v2) :
            ks \in {p \in BuildKeys \X BuildKeys : StrLess(p[1], p[2])},
            v1 \in {JNull, JEmpty}, v2 \in {JNull, JEmpty}}

\* what is on disk when the command starts
tElem == <<"t">>

Disk(entries) == (<<>> :> "dir") @@ entries

BuildDisks ==
    { Disk(<<>>),
      Disk(<<tElem>> :> "file"),
      Disk(<<tElem>> :> "dir"),
      Disk(<<tElem>> :> "dir" @@ <<tElem, <<"a">>>> :> "file"),
      Disk(<<tElem>> :> "dir" @@ <<tElem, <<"a">>>> :> "dir"),
      Disk(<<tElem>> :> "dir" @@ <<tElem, <<"a">>>> :> "dir"
           @@ <<tElem, <<"a">>, <<"a">>>> :> "link"),
      Disk(<<tElem>> :> "dir" @@ <<tElem, <<"a">>>> :> "dir"
           @@ <<tElem, <<"a">>, <<"b">>>> :> "file") }

----------------------------------------------------------------------------
(* The build command (runBuild) and the steps of Generate                  *)

\* a build command that goes on to the next stage whatever the error
afterStageIgnoring(err, next) == next

\* steps 2 and 3 of runBuild: where the command goes with the stage's error
afterStage(err, next) == IF err # NoErr THEN "failed" ELSE next

\* parse.ParseWithIndent / parse.Parse
Parse(content, fmt, width) ==
    IF fmt = "plain-text" THEN PlainTextParse(content, width)
    ELSE IF fmt = "YAML" THEN YAMLParse(content)
    ELSE JSONParse(content)

Init ==
    /\ pc = "start"
    /\ goos = "linux"
    /\ format \in {"plain-text", "JSON"}
    /\ input \in IF format = "plain-text" THEN BuildTexts ELSE BuildJSON
    /\ indentSize = 2
    /\ nodes = <<>>
    /\ perr = NoErr
    /\ verr = NoErr
    /\ fs0 \in BuildDisks
    /\ fs = fs0
    /\ todo = <<>>
    /\ phase = "check"
    /\ result = NewResult
    /\ gerr = NoErr
    /\ run = 1
    /\ first = [result |-> NewResult, gerr |-> NoErr, fs0 |-> fs0, fs |-> fs0]
    /\ raced = {}
    /\ out = [text |-> <<>>, nodes |-> <<>>, err |-> NoErr]

\* runBuild, step 2
BuildParse ==
    /\ pc = "start"
    /\ LET r == Parse(input, format, indentSize)
       IN /\ nodes' = r.nodes
          /\ perr' = r.err
          /\ pc' = afterStage(r.err, "parsed")
    /\ UNCHANGED <<goos, format, input, indentSize, verr, fs0, fs, todo, phase,
                   result, gerr, run, first, raced, out>>

\* runBuild, step 3
BuildValidate ==
    /\ pc = "parsed"
    /\ \E r \in {Validate(nodes, goos)} :
          /\ nodes' = r.nodes
          /\ verr' = r.err
          /\ pc' = afterStage(r.err, "validated")
    /\ UNCHANGED <<goos, format, input, indentSize, perr, fs0, fs, todo, phase,
                   result, gerr, run, first, raced, out>>

\* runBuild, step 4: generate.Generate up to the loop over the root nodes
GenerateStart ==
    /\ pc = "validated"
    /\ LET r == SafeMkdir(fs, targetAbs)
       IN /\ fs' = r.fs
          /\ result' = NewResult
          /\ IF r.err # NoErr
             THEN /\ gerr' = Errorf("failed to create target directory: %w", <<targetAbs>>)
                  /\ pc' = "done"
                  /\ todo' = <<>>
             ELSE /\ gerr' = NoErr
                  /\ pc' = "generating"
                  /\ todo' = [i \in 1..Len(nodes) |-> <<i>>]
    /\ phase' = "check"
    /\ UNCHANGED <<goos, format, input, indentSize, nodes, perr, verr, fs0, run,
                   first, raced, out>>

\* generateNode, the existence check and the branch for a path that exists
GenerateCheck ==
    /\ pc = "generating"
    /\ todo # <<>>
    /\ phase = "check"
    /\ LET ip == Head(todo)
           node == NodeAt(nodes, ip)
           fullPath == fullPathOf(nodes, ip, targetAbs)
       IN IF PathExists(fs, fullPath)
          THEN /\ result' = skipNode(result, fullPath)
               /\ todo' = callsAfterSkip(nodes, ip) \o Tail(todo)
               /\ phase' = "check"
          ELSE /\ phase' = "create"
               /\ UNCHANGED <<result, todo>>
    /\ UNCHANGED <<pc, goos, format, input, indentSize, nodes, perr, verr, fs0,
                   fs, gerr, run, first, raced, out>>

\* generateNode, the creation of a path the check found missing
GenerateCreate ==
    /\ pc = "generating"
    /\ todo # <<>>
    /\ phase = "create"
    /\ LET ip == Head(todo)
           node == NodeAt(nodes, ip)
           fullPath == fullPathOf(nodes, ip, targetAbs)
           mk == SafeMkdir(fs, fullPath)
           en == EnsureDir(fs, fullPath)
           cr == SafeCreateFile(en.fs, fullPath)
       IN IF node.IsDir
          THEN IF mk.err # NoErr
               THEN /\ result' = failNode(result, "failed to create directory %s: %v", fullPath)
                    /\ todo' = afterError(Tail(todo), ip[1])
                    /\ fs' = mk.fs
               ELSE /\ result' = createNode(result, fullPath)
                    /\ todo' = childCalls(nodes, ip) \o Tail(todo)
                    /\ fs' = mk.fs
          ELSE IF en.err # NoErr
               THEN /\ result' = failNode(result, "failed to create parent directory for %s: %v", fullPath)
                    /\ todo' = afterError(Tail(todo), ip[1])
                    /\ fs' = en.fs
               ELSE IF cr.err # NoErr
               THEN IF saysAlreadyExists(cr.err)
                    THEN /\ result' = skipNode(result, fullPath)
                         /\ todo' = Tail(todo)
                         /\ fs' = cr.fs
                    ELSE /\ result' = failNode(result, "failed to create file %s: %v", fullPath)
                         /\ todo' = afterError(Tail(todo), ip[1])
                         /\ fs' = cr.fs
               ELSE /\ result' = createNode(result, fullPath)
                    /\ todo' = Tail(todo)
                    /\ fs' = cr.fs
    /\ phase' = "check"
    /\ UNCHANGED <<pc, goos, format, input, indentSize, nodes, perr, verr, fs0,
                   gerr, run, first, raced, out>>

\* Generate, after the loop over the root nodes
GenerateReturn ==
    /\ pc = "generating"
    /\ todo = <<>>
    /\ gerr' = IF Len(result.Errors) > 0
               THEN Errorf("generation completed with %d errors", <<Len(result.Errors)>>)
               ELSE NoErr
    /\ pc' = "done"
    /\ UNCHANGED <<goos, format, input, indentSize, nodes, perr, verr, fs0, fs,
                   todo, phase, result, run, first, raced, out>>

\* another process creates a file or a directory at the path generateNode
\* found missing, before generateNode creates it
OtherProcess ==
    /\ pc = "generating"
    /\ todo # <<>>
    /\ phase = "create"
    /\ Cardinality(raced) < MaxRaces
    /\ LET k == Elems(fullPathOf(nodes, Head(todo), targetAbs))
       IN /\ k \notin DOMAIN fs
          /\ SubSeq(k, 1, Len(k) - 1) \in DOMAIN fs
          /\ fs[SubSeq(k, 1, Len(k) - 1)] = "dir"
          /\ \E kind \in {"file", "dir"} :
                /\ fs' = [e \in DOMAIN fs \cup {k} |-> IF e = k THEN kind ELSE fs[e]]
                /\ raced' = raced \cup {[ip |-> Head(todo), run |-> run, kind |-> kind]}
    /\ UNCHANGED <<pc, goos, format, input, indentSize, nodes, perr, verr, fs0,
                   todo, phase, result, gerr, run, first, out>>

\* the same command is run again on what the first run left on disk
RunAgain ==
    /\ pc = "done"
    /\ run < MaxRuns
    /\ run' = run + 1
    /\ first' = IF run = 1
                THEN [result |-> result, gerr |-> gerr, fs0 |-> fs0, fs |-> fs]
                ELSE first
    /\ pc' = "start"
    /\ fs0' = fs
    /\ nodes' = <<>>
    /\ result' = NewResult
    /\ gerr' = NoErr
    /\ UNCHANGED <<goos, format, input, indentSize, perr, verr, fs, todo, phase,
                   raced, out>>

Next ==
    \/ BuildParse
    \/ BuildValidate
    \/ GenerateStart
    \/ GenerateCheck
    \/ GenerateCreate
    \/ GenerateReturn
    \/ OtherProcess
    \/ RunAgain

Spec == Init /\ [][Next]_vars

----------------------------------------------------------------------------
(* Parsing, validating and exporting on their own: the inputs vary in      *)
(* indentation, in names and in platform, and no filesystem is involved    *)

\* inputs that vary in their indentation
IndentLines ==
    {ind \o c : ind \in {<<>>, <<SP>>, <<SP, SP>>, <<SP, SP, SP, SP>>, <<TAB>>,
                         <<TAB, TAB>>, <<SP, TAB>>},
                c \in {<<"a", SLASH>>, <<"b">>}}

\* inputs that vary in their names
NameLines ==
    {ind \o c : ind \in {<<>>, <<SP, SP>>},
                c \in {<<"a">>, <<"a", SLASH>>, <<"A", SLASH>>, <<"B">>,
                       <<"a", SP, SLASH>>, <<DOT, DOT>>, <<CTL>>}}

TreeTexts ==
    {<<h>> \o t : h \in {<<"a", SLASH>>, <<"b">>, <<SP, SP, "a", SLASH>>},
                  t \in SeqsUpTo(IndentLines, MaxLines - 1)}
    \cup {<<h>> \o t : h \in {<<"a", SLASH>>, <<"B">>, <<"A", SLASH>>},
                       t \in SeqsUpTo(NameLines, MaxLines - 1)}
    \* comment lines, and a line indented by as many spaces as the code of a tab
    \cup {<<h>> \o t : h \in {<<"a", SLASH>>, <<"b">>},
                       t \in SeqsUpTo({<<SP, HASH, "a">>, <<SP, TAB, HASH, "a">>,
                                       <<SP, SP, "b">>,
                                       Repeat(<<SP>>, CharCode(TAB)) \o <<"b">>},
                                      MaxLines - 1)}

TreeKeys == {<<>>, <<"a">>, <<"A">>, <<"a", SLASH, "b">>, <<DOT, SLASH, "a">>, <<DOT, DOT>>}

TreeJSON ==
    {JObject(k :> v) : k \in TreeKeys, v \in {JNull, JEmpty, JObject(<<"b">> :> JNull)}}
    \cup {JObject(ks[1] :> v1 @@ ks[2] :> v2) :
            ks \in {p \in TreeKeys \X TreeKeys : StrLess(p[1], p[2])},
            v1 \in {JNull, JObject(<<"b">> :> JNull)}, v2 \in {JNull, JEmpty}}

\* the --indent flag (0: auto-detect) and the platform
TreeSettings ==
    {<<2, "linux">>, <<2, "windows">>, <<0, "linux">>, <<1, "linux">>, <<4, "linux">>}

InitTree ==
    /\ pc = "start"
    /\ format \in {"plain-text", "JSON"}
    /\ input \in IF format = "plain-text" THEN TreeTexts ELSE TreeJSON
    /\ \E st \in IF format = "plain-text"
                 THEN TreeSettings \cup {<<CharCode(SP), "linux">>}
                 ELSE {<<2, "linux">>, <<2, "windows">>} :
          \* the width that is the code of a space goes with the deep lines
          /\ st[1] = CharCode(SP)
                => \E i \in 1..Len(input) : Len(input[i]) > CharCode(TAB)
          /\ indentSize = st[1]
          /\ goos = st[2]
    /\ nodes = <<>>
    /\ perr = NoErr
    /\ verr = NoErr
    /\ fs0 = Disk(<<>>)
    /\ fs = fs0
    /\ todo = <<>>
    /\ phase = "check"
    /\ result = NewResult
    /\ gerr = NoErr
    /\ run = 1
    /\ first = [result |-> NewResult, gerr |-> NoErr, fs0 |-> fs0, fs |-> fs0]
    /\ raced = {}
    /\ out = [text |-> <<>>, nodes |-> <<>>, err |-> NoErr]

\* Exporter.ToTreeSimple on the parsed forest: the forest is sorted in place
\* and written out
ExportSimple ==
    /\ pc = "parsed"
    /\ \E sorted \in sortedForests(nodes) :
          /\ nodes' = sorted
          /\ out' = [out EXCEPT !.text = writeSimpleTree(sorted, 0)]
    /\ pc' = "exported"
    /\ UNCHANGED <<goos, format, input, indentSize, perr, verr, fs0, fs, todo,
                   phase, result, gerr, run, first, raced>>

\* the exported text is parsed as a layout file, with the default width
Reparse ==
    /\ pc = "exported"
    /\ LET r == PlainTextParse(scanLines(out.text, <<>>), 2)
       IN out' = [out EXCEPT !.nodes = r.nodes, !.err = r.err]
    /\ pc' = "reparsed"
    /\ UNCHANGED <<goos, format, input, indentSize, nodes, perr, verr, fs0, fs,
                   todo, phase, result, gerr, run, first, raced>>

NextTree ==
    \/ BuildParse
    \/ BuildValidate
    \/ ExportSimple
    \/ Reparse

SpecTree == InitTree /\ [][NextTree]_vars

----------------------------------------------------------------------------
(* Parsing a layout and rendering the forest: the inputs vary in the       *)
(* values of the map forms and in the order and kind of siblings           *)

JBool == [t |-> "bool"]
JArray == [t |-> "array"]

MapKeys == {<<"a">>, <<"A">>, <<"b">>, <<"a", SLASH, "b">>}

\* the values a key can hold in a decoded document
MapValues(fmt) ==
    {JNull, JString(<<>>), JString(<<"a">>), JNumber, JBool, JArray, JEmpty,
     JObject(<<"b">> :> JNull), JObject(<<"b">> :> JNumber),
     JObject(<<"B">> :> JEmpty @@ <<"a">> :> JNull)}
    \cup (IF fmt = "YAML" THEN {YGeneralMap} ELSE {})

\* the decoded documents: roots that are no map, and maps of one or two keys
MapDocs(fmt) ==
    {JNull, JString(<<"a">>), JNumber, JBool, JArray, JEmpty}
    \cup (IF fmt = "YAML" THEN {YGeneralMap} ELSE {})
    \cup {JObject(k :> v) : k \in MapKeys, v \in MapValues(fmt)}
    \cup {JObject(ks[1] :> v1 @@ ks[2] :> v2) :
            ks \in {p \in MapKeys \X MapKeys : StrLess(p[1], p[2])},
            v1 \in MapValues(fmt), v2 \in MapValues(fmt)}

InitExport ==
    /\ pc = "start"
    /\ format \in {"plain-text", "JSON", "YAML"}
    /\ input \in IF format = "plain-text" THEN TreeTexts ELSE MapDocs(format)
    /\ indentSize = 2
    /\ goos = "linux"
    /\ nodes = <<>>
    /\ perr = NoErr
    /\ verr = NoErr
    /\ fs0 = Disk(<<>>)
    /\ fs = fs0
    /\ todo = <<>>
    /\ phase = "check"
    /\ result = NewResult
    /\ gerr = NoErr
    /\ run = 1
    /\ first = [result |-> NewResult, gerr |-> NoErr, fs0 |-> fs0, fs |-> fs0]
    /\ raced = {}
    /\ out = [text |-> <<>>, nodes |-> <<>>, err |-> NoErr]

\* Exporter.ToTree on the parsed forest: the forest is sorted in place and
\* written out
ExportTree ==
    /\ pc = "parsed"
    /\ \E sorted \in sortedForests(nodes) :
          /\ nodes' = sorted
          /\ out' = [out EXCEPT !.text = writeTree(sorted, 1)]
    /\ pc' = "exportedTree"
    /\ UNCHANGED <<goos, format, input, indentSize, perr, verr, fs0, fs, todo,
                   phase, result, gerr, run, first, raced>>

\* Exporter.ToJSON on the parsed forest: nodesToMap sorts the forest in
\* place, and the map it returns is marshalled
ExportJSON ==
    /\ pc = "parsed"
    /\ \E sorted \in sortedForests(nodes) :
          /\ nodes' = sorted
          /\ out' = [out EXCEPT !.text = Marshal(JObject(nodesToMap(sorted)))]
    /\ pc' = "exportedJSON"
    /\ UNCHANGED <<goos, format, input, indentSize, perr, verr, fs0, fs, todo,
                   phase, result, gerr, run, first, raced>>

\* the exported JSON text is parsed as a layout file
ReparseJSON ==
    /\ pc = "exportedJSON"
    /\ LET r == JSONParse(Unmarshal(out.text))
       IN out' = [out EXCEPT !.nodes = r.nodes, !.err = r.err]
    /\ pc' = "reparsedJSON"
    /\ UNCHANGED <<goos, format, input, indentSize, nodes, perr, verr, fs0, fs,
                   todo, phase, result, gerr, run, first, raced>>

NextExport ==
    \/ BuildParse
    \/ ExportSimple
    \/ ExportTree
    \/ ExportJSON
    \/ ReparseJSON

SpecExport == InitExport /\ [][NextExport]_vars

----------------------------------------------------------------------------
(* The filter of the analyze command                                       *)

\* NewFilter: directories to ignore (exact match)
ignoreDirs ==
    <<
      <<".", "g", "i", "t">>, <<".", "s", "v", "n">>, <<".", "h", "g">>,
      <<".", "b", "z", "r">>,
      <<"n", "o", "d", "e", "_", "m", "o", "d", "u", "l", "e", "s">>,
      <<"v", "e", "n", "d", "o", "r">>, <<"v", "e", "n", "v">>,
      <<".", "v", "e", "n", "v">>, <<"e", "n", "v">>,
      <<".", "e", "n", "v", ".", "l", "o", "c", "a", "l">>,
      <<"v", "i", "r", "t", "u", "a", "l", "e", "n", "v">>,
      <<"b", "o", "w", "e", "r", "_", "c", "o", "m", "p", "o", "n", "e", "n", "t", "s">>,
      <<"j", "s", "p", "m", "_", "p", "a", "c", "k", "a", "g", "e", "s">>,
      <<"d", "i", "s", "t">>, <<"b", "u", "i", "l", "d">>,
      <<"t", "a", "r", "g", "e", "t">>, <<"o", "u", "t">>,
      <<"o", "u", "t", "p", "u", "t">>, <<"b", "i", "n">>, <<"o", "b", "j">>,
      <<"_", "b", "u", "i", "l", "d">>,
      <<"_", "_", "p", "y", "c", "a", "c", "h", "e", "_", "_">>,
      <<".", "c", "a", "c", "h", "e">>,
      <<".", "p", "y", "t", "e", "s", "t", "_", "c", "a", "c", "h", "e">>,
      <<".", "m", "y", "p", "y", "_", "c", "a", "c", "h", "e">>,
      <<".", "t", "o", "x">>,
      <<".", "c", "o", "v", "e", "r", "a", "g", "e">>,
      <<".", "n", "y", "c", "_", "o", "u", "t", "p", "u", "t">>,
      <<".", "i", "d", "e", "a">>, <<".", "v", "s", "c", "o", "d", "e">>,
      <<".", "v", "s">>,
      <<".", "s", "u", "b", "l", "i", "m", "e", "-", "w", "o", "r", "k", "s", "p", "a", "c", "e">>,
      <<"*", ".", "x", "c", "w", "o", "r", "k", "s", "p", "a", "c", "e">>,
      <<".", "p", "r", "o", "j", "e", "c", "t">>,
      <<".", "c", "l", "a", "s", "s", "p", "a", "t", "h">>,
      <<".", "s", "e", "t", "t", "i", "n", "g", "s">>, <<"t", "m", "p">>,
      <<"t", "e", "m", "p">>, <<".", "t", "m", "p">>,
      <<".", "t", "e", "m", "p">>, <<".", "b", "u", "n", "d", "l", "e">>,
      <<".", "d", "a", "r", "t", "_", "t", "o", "o", "l">>,
      <<".", "p", "a", "c", "k", "a", "g", "e", "s">>,
      <<".", "p", "u", "b", "-", "c", "a", "c", "h", "e">>,
      <<".", "p", "u", "b">>, <<"P", "o", "d", "s">>,
      <<"c", "o", "v", "e", "r", "a", "g", "e">>,
      <<"h", "t", "m", "l", "c", "o", "v">>,
      <<".", "h", "y", "p", "o", "t", "h", "e", "s", "i", "s">>,
      <<".", "p", "h", "p", "u", "n", "i", "t", ".", "r", "e", "s", "u", "l", "t", ".", "c", "a", "c", "h", "e">>,
      <<"*", ".", "e", "g", "g", "-", "i", "n", "f", "o">>,
      <<".", "e", "g", "g", "s">>
    >>

\* NewFilter: files to ignore (exact match)
ignoreFiles ==
    <<
      <<".", "D", "S", "_", "S", "t", "o", "r", "e">>,
      <<"T", "h", "u", "m", "b", "s", ".", "d", "b">>,
      <<"d", "e", "s", "k", "t", "o", "p", ".", "i", "n", "i">>,
      <<"p", "a", "c", "k", "a", "g", "e", "-", "l", "o", "c", "k", ".", "j", "s", "o", "n">>,
      <<"y", "a", "r", "n", ".", "l", "o", "c", "k">>,
      <<"p", "n", "p", "m", "-", "l", "o", "c", "k", ".", "y", "a", "m", "l">>,
      <<"G", "e", "m", "f", "i", "l", "e", ".", "l", "o", "c", "k">>,
      <<"p", "o", "e", "t", "r", "y", ".", "l", "o", "c", "k">>,
      <<"P", "i", "p", "f", "i", "l", "e", ".", "l", "o", "c", "k">>,
      <<"c", "o", "m", "p", "o", "s", "e", "r", ".", "l", "o", "c", "k">>,
      <<"C", "a", "r", "g", "o", ".", "l", "o", "c", "k">>,
      <<"g", "o", ".", "s", "u", "m">>, <<".", "e", "n", "v">>,
      <<".", "e", "n", "v", ".", "l", "o", "c", "a", "l">>,
      <<".", "e", "n", "v", ".", "p", "r", "o", "d", "u", "c", "t", "i", "o", "n">>,
      <<".", "e", "n", "v", ".", "d", "e", "v", "e", "l", "o", "p", "m", "e", "n", "t">>
    >>

\* NewFilter: extensions to ignore
ignoreExtensions ==
    <<
      <<".", "e", "x", "e">>, <<".", "d", "l", "l">>, <<".", "s", "o">>,
      <<".", "d", "y", "l", "i", "b">>, <<".", "a">>, <<".", "o">>,
      <<".", "o", "b", "j">>, <<".", "c", "l", "a", "s", "s">>,
      <<".", "j", "a", "r">>, <<".", "w", "a", "r">>, <<".", "p", "y", "c">>,
      <<".", "p", "y", "o">>, <<".", "p", "y", "d">>, <<".", "z", "i", "p">>,
      <<".", "t", "a", "r">>, <<".", "g", "z">>, <<".", "b", "z", "2">>,
      <<".", "7", "z">>, <<".", "r", "a", "r">>, <<".", "d", "b">>,
      <<".", "s", "q", "l", "i", "t", "e">>,
      <<".", "s", "q", "l", "i", "t", "e", "3">>, <<".", "l", "o", "g">>,
      <<".", "b", "a", "k">>, <<".", "b", "a", "c", "k", "u", "p">>,
      <<".", "o", "l", "d">>, <<".", "o", "r", "i", "g">>, <<"~">>,
      <<".", "i", "m", "l">>, <<".", "s", "u", "o">>,
      <<".", "u", "s", "e", "r">>, <<".", "s", "w", "p">>,
      <<".", "s", "w", "o">>, <<".", "s", "w", "n">>
    >>

\* NewFilter: prefixes to ignore
ignorePrefixes ==
    <<
      <<".">>, <<"~">>, <<"#">>
    >>

\* ShouldFilter: dot files that are kept
allowedDotFiles ==
    <<
      <<".", "g", "i", "t", "i", "g", "n", "o", "r", "e">>,
      <<".", "d", "o", "c", "k", "e", "r", "i", "g", "n", "o", "r", "e">>,
      <<".", "e", "s", "l", "i", "n", "t", "r", "c">>,
      <<".", "p", "r", "e", "t", "t", "i", "e", "r", "r", "c">>,
      <<".", "e", "d", "i", "t", "o", "r", "c", "o", "n", "f", "i", "g">>,
      <<".", "g", "i", "t", "a", "t", "t", "r", "i", "b", "u", "t", "e", "s">>,
      <<".", "n", "p", "m", "r", "c">>, <<".", "n", "v", "m", "r", "c">>,
      <<".", "r", "u", "b", "y", "-", "v", "e", "r", "s", "i", "o", "n">>,
      <<".", "p", "y", "t", "h", "o", "n", "-", "v", "e", "r", "s", "i", "o", "n">>,
      <<".", "t", "o", "o", "l", "-", "v", "e", "r", "s", "i", "o", "n", "s">>
    >>

\* the file-only patterns ShouldFilter looks for inside a name
minifiedMarks ==
    <<<<".", "m", "i", "n", ".">>, <<".", "b", "u", "n", "d", "l", "e", ".">>,
      <<".", "p", "a", "c", "k", "e", "d", ".">>, <<".", "c", "o", "m", "p", "i", "l", "e", "d", ".">>>>

\* a dot-file allowlist that is consulted for directories as well
isAllowedDotFileAnyKind(lowerName, isDir) ==
    \E i \in 1..Len(allowedDotFiles) :
       \/ lowerName = ToLower(allowedDotFiles[i])
       \/ HasPrefix(lowerName, ToLower(allowedDotFiles[i]) \o <<DOT>>)

\* ShouldFilter: the dot files that are not filtered
isAllowedDotFile(lowerName, isDir) ==
    /\ ~isDir
    /\ \E i \in 1..Len(allowedDotFiles) :
          \/ lowerName = ToLower(allowedDotFiles[i])
          \/ HasPrefix(lowerName, ToLower(allowedDotFiles[i]) \o <<DOT>>)

\* Filter.ShouldFilter
ShouldFilter(name, isDir) ==
    LET lowerName == ToLower(name)
    IN IF name = <<>> THEN TRUE
       ELSE IF isDir /\ \E i \in 1..Len(ignoreDirs) : lowerName = ToLower(ignoreDirs[i])
            THEN TRUE
       ELSE IF ~isDir /\ \E i \in 1..Len(ignoreFiles) : lowerName = ToLower(ignoreFiles[i])
            THEN TRUE
       ELSE IF ~isDir /\ \E i \in 1..Len(ignoreExtensions) :
                            HasSuffix(lowerName, ToLower(ignoreExtensions[i]))
            THEN TRUE
       ELSE IF HasPrefix(name, <<DOT>>)
            THEN ~isAllowedDotFile(lowerName, isDir)
       ELSE IF \E i \in 2..Len(ignorePrefixes) : HasPrefix(name, ignorePrefixes[i])
            THEN TRUE
       ELSE IF ~isDir /\ \E i \in 1..Len(minifiedMarks) :
                            ContainsStr(lowerName, minifiedMarks[i])
            THEN TRUE
       ELSE FALSE

----------------------------------------------------------------------------
(* The analyzers: a walk of a local directory and a remote flat listing    *)

\* analyze.Result without its Nodes, which the variable nodes holds
NewAnalysis == [DirCount |-> 0, FileCount |-> 0, FilteredCount |-> 0, TotalScanned |-> 0]

\* LocalAnalyzer.walkDirectory over the entries os.ReadDir returns: the
\* children appended to the parent node and the counters
RECURSIVE walkDirectory(_, _, _, _, _)
RECURSIVE walkEntries(_, _, _, _, _, _, _)
walkEntries(entries, i, parentPath, currentDepth, maxDepth, children, res) ==
    IF i > Len(entries) THEN [children |-> children, res |-> res]
    ELSE LET entry == entries[i]
             scanned == [res EXCEPT !.TotalScanned = @ + 1]
             node == [Name |-> entry.Name, IsDir |-> entry.IsDir, Children |-> <<>>,
                      Path |-> Join(parentPath, entry.Name), Line |-> 0]
         IN IF ShouldFilter(entry.Name, entry.IsDir)
            THEN walkEntries(entries, i + 1, parentPath, currentDepth, maxDepth, children,
                             [scanned EXCEPT !.FilteredCount = @ + 1])
            ELSE IF entry.IsDir
            THEN LET sub == walkDirectory(entry.Children, node.Path, currentDepth + 1,
                                          maxDepth, [scanned EXCEPT !.DirCount = @ + 1])
                 IN walkEntries(entries, i + 1, parentPath, currentDepth, maxDepth,
                                Append(children, [node EXCEPT !.Children = sub.children]),
                                sub.res)
            ELSE walkEntries(entries, i + 1, parentPath, currentDepth, maxDepth,
                             Append(children, node),
                             [scanned EXCEPT !.FileCount = @ + 1])

walkDirectory(entries, parentPath, currentDepth, maxDepth, res) ==
    IF currentDepth > maxDepth THEN [children |-> <<>>, res |-> res]
    ELSE walkEntries(entries, 1, parentPath, currentDepth, maxDepth, <<>>, res)

\* LocalAnalyzer.Analyze on a directory named baseName
LocalAnalyze(baseName, entries, maxDepth) ==
    LET walked == walkDirectory(entries, baseName, 1, maxDepth, NewAnalysis)
        rootNode == [Name |-> baseName, IsDir |-> TRUE, Children |-> walked.children,
                     Path |-> baseName, Line |-> 0]
    IN IF Len(walked.children) > 0
          \/ (walked.res.DirCount = 0 /\ walked.res.FileCount = 0)
       THEN [nodes |-> <<rootNode>>, res |-> [walked.res EXCEPT !.DirCount = @ + 1]]
       ELSE [nodes |-> <<>>, res |-> walked.res]

\* NewAnalyzer: the depth limit of the remote analyzer
githubMaxDepth == 5

\* GitHubAnalyzer.shouldSkipItem; the path has one separator less than it
\* has components
shouldSkipItem(item, maxDepth) ==
    LET parts == Split(item.Path)
        depth == Len(parts) - 1
        name == parts[Len(parts)]
    IN IF depth >= maxDepth THEN TRUE
       ELSE ShouldFilter(name, item.Type = "tree")

\* GitHubAnalyzer.addItemToTree from the i-th component of the path on: the
\* children of the current node after the item is added
RECURSIVE addItemToTree(_, _, _, _)
addItemToTree(children, parts, i, item) ==
    LET part == parts[i]
        isLastPart == i = Len(parts)
        found == {k \in 1..Len(children) : children[k].Name = part}
        first_k == CHOOSE k \in found : \A j \in found : k <= j
        node == [Name |-> part, IsDir |-> ~isLastPart \/ item.Type = "tree",
                 Children |-> <<>>, Path |-> item.Path, Line |-> 0]
    IN IF found # {}
       THEN IF isLastPart THEN children
            ELSE [children EXCEPT ![first_k].Children = addItemToTree(@, parts, i + 1, item)]
       ELSE IF isLastPart THEN Append(children, node)
            ELSE Append(children,
                        [node EXCEPT !.Children = addItemToTree(<<>>, parts, i + 1, item)])

\* the loop of GitHubAnalyzer.Analyze over the items of the listing
RECURSIVE analyzeItems(_, _, _, _)
analyzeItems(tree, i, rootNode, res) ==
    IF i > Len(tree) THEN [root |-> rootNode, res |-> res]
    ELSE LET item == tree[i]
         IN IF shouldSkipItem(item, githubMaxDepth)
            THEN analyzeItems(tree, i + 1, rootNode, [res EXCEPT !.FilteredCount = @ + 1])
            ELSE analyzeItems(tree, i + 1,
                              [rootNode EXCEPT !.Children =
                                  addItemToTree(@, Split(item.Path), 1, item)],
                              IF item.Type = "tree"
                              THEN [res EXCEPT !.TotalScanned = @ + 1, !.DirCount = @ + 1]
                              ELSE [res EXCEPT !.TotalScanned = @ + 1, !.FileCount = @ + 1])

\* GitHubAnalyzer.Analyze on the listing of the repository repo
GitHubAnalyze(repo, tree) ==
    LET rootNode == [Name |-> repo, IsDir |-> TRUE, Children |-> <<>>,
                     Path |-> repo, Line |-> 0]
        built == analyzeItems(tree, 1, rootNode, NewAnalysis)
    IN IF Len(built.root.Children) > 0
       THEN [nodes |-> <<built.root>>, res |-> [built.res EXCEPT !.DirCount = @ + 1]]
       ELSE [nodes |-> <<>>, res |-> built.res]

----------------------------------------------------------------------------
(* The analyze command                                                     *)

BACKTICK == "backtick"   \* U+0060, one element of a string

\* strings.Split(s, "\n")
RECURSIVE SplitLinesAcc(_, _)
SplitLinesAcc(s, cur) ==
    IF s = <<>> THEN <<cur>>
    ELSE IF Head(s) = NL THEN <<cur>> \o SplitLinesAcc(Tail(s), <<>>)
    ELSE SplitLinesAcc(Tail(s), Append(cur, Head(s)))

\* strings.Join(lines, "\n")
RECURSIVE JoinLines(_)
JoinLines(lines) ==
    IF lines = <<>> THEN <<>>
    ELSE IF Len(lines) = 1 THEN lines[1]
    ELSE lines[1] \o <<NL>> \o JoinLines(Tail(lines))

\* strings.TrimPrefix
TrimPrefix(s, p) == IF HasPrefix(s, p) THEN SubSeq(s, Len(p) + 1, Len(s)) ELSE s

\* the loop of extractSkeletonFromResponse over the lines of the response
RECURSIVE cleanLines(_, _, _, _)
cleanLines(lines, i, inCodeBlock, cleanedLines) ==
    IF i > Len(lines) THEN cleanedLines
    ELSE LET line == lines[i]
         IN IF HasPrefix(TrimSpace(line), <<BACKTICK, BACKTICK, BACKTICK>>)
            THEN cleanLines(lines, i + 1, ~inCodeBlock, cleanedLines)
            ELSE IF ~inCodeBlock /\ TrimSpace(line) # <<>>
            THEN cleanLines(lines, i + 1, inCodeBlock,
                            Append(cleanedLines,
                                   TrimPrefix(TrimPrefix(line, <<"-", SP>>), <<"*", SP>>)))
            ELSE cleanLines(lines, i + 1, inCodeBlock, cleanedLines)

\* GeminiClient.extractSkeletonFromResponse
extractSkeletonFromResponse(response) ==
    TrimSpace(JoinLines(cleanLines(SplitLinesAcc(response, <<>>), 1, FALSE, <<>>)))

\* the texts the service answers with
APIResponses ==
    {<<>>,
     <<"a", "/", NL, SP, SP, "b">>,
     <<BACKTICK, BACKTICK, BACKTICK, NL, "a", "/", NL, SP, SP, "b", NL,
       BACKTICK, BACKTICK, BACKTICK>>,
     <<"-", SP, "a", "/", NL, "*", SP, "b", NL, NL>>,
     <<"a", NL, BACKTICK, BACKTICK, BACKTICK, NL, "b", NL,
       BACKTICK, BACKTICK, BACKTICK, NL>>}

\* an entry of a source tree
Entry(name, isDir, children) == [Name |-> name, IsDir |-> isDir, Children |-> children]

\* a directory chain of the given depth with a file at the bottom
RECURSIVE Chain(_)
Chain(depth) ==
    IF depth <= 1 THEN <<Entry(<<"a">>, FALSE, <<>>)>>
    ELSE <<Entry(<<"a">>, TRUE, Chain(depth - 1))>>

\* the source trees: one entry, of either kind, of every name of a set that
\* meets each rule of the filter and none of them, and deeper trees
SourceTrees ==
    {<<Entry(n, d, <<>>)>> :
        n \in
            {<<>>,
             <<"b", "i", "n">>,
             <<"B", "i", "n">>,
             <<"g", "o", ".", "s", "u", "m">>,
             <<"a", ".", "a">>,
             <<"a", ".", "A">>,
             <<"a", "~">>,
             <<".", "n", "p", "m", "r", "c">>,
             <<".", "n", "p", "m", "r", "c", ".", "a">>,
             <<".", "n", "p", "m", "r", "c", ".", "b">>,
             <<".", "n", "p", "m", "r", "c", "b">>,
             <<".", "b">>,
             <<"~", "a">>,
             <<"#", "a">>,
             <<"a", ".", "m", "i", "n", ".", "b">>,
             <<"a">>,
             <<"a", ".", "b">>},
        d \in BOOLEAN}
    \cup {<<>>,
          <<Entry(<<"a">>, TRUE, <<Entry(<<"b">>, FALSE, <<>>), Entry(<<"c">>, TRUE, <<>>)>>),
            Entry(<<"b">>, FALSE, <<>>)>>,
          <<Entry(<<"b", "i", "n">>, TRUE, <<Entry(<<"a">>, FALSE, <<>>)>>)>>,
          <<Entry(<<".", "b">>, TRUE, <<Entry(<<"a">>, FALSE, <<>>)>>)>>,
          <<Entry(<<"a">>, TRUE,
                  <<Entry(<<"b", "i", "n">>, TRUE, <<Entry(<<"b">>, FALSE, <<>>)>>),
                    Entry(<<"c">>, FALSE, <<>>)>>)>>,
          Chain(githubMaxDepth + 1)}

\* the recursive listing of a tree: every entry with its path from the root
RECURSIVE Listing(_, _)
Listing(entries, prefix) ==
    IF entries = <<>> THEN <<>>
    ELSE LET e == Head(entries)
             path == IF prefix = <<>> THEN e.Name ELSE prefix \o <<SLASH>> \o e.Name
         IN <<[Path |-> path, Type |-> IF e.IsDir THEN "tree" ELSE "blob"]>>
            \o Listing(e.Children, path)
            \o Listing(Tail(entries), prefix)

\* format holds the --format flag, input the source with the other flags and
\* the environment, nodes and result the analysis, perr the error of Analyze,
\* phase the outcome of the call to the service, out the raw structure, the
\* text the service answered with (response), the skeleton and what was
\* printed (text), gerr the error the command returns
InitAnalyze ==
    /\ pc = "start"
    /\ format \in {"tree", "json", "xml"}
    /\ input \in {in \in [kind : {"github", "local"}, tree : SourceTrees,
                            reachable : BOOLEAN, maxDepth : {0, 1, githubMaxDepth},
                            key : BOOLEAN] :
                    /\ in.kind = "local" =>
                          \A i \in 1..Len(in.tree) : in.tree[i].Name # <<>>
                    /\ ~in.reachable => in.tree = <<>>}
    /\ indentSize = 2
    /\ goos = "linux"
    /\ nodes = <<>>
    /\ perr = NoErr
    /\ verr = NoErr
    /\ fs0 = Disk(<<>>)
    /\ fs = fs0
    /\ todo = <<>>
    /\ phase = "none"
    /\ result = NewAnalysis
    /\ gerr = NoErr
    /\ run = 1
    /\ first = [result |-> NewResult, gerr |-> NoErr, fs0 |-> fs0, fs |-> fs0]
    /\ raced = {}
    /\ out = [text |-> <<>>, raw |-> <<>>, response |-> <<>>, skeleton |-> <<>>]

\* the name of the root node: the base name of the directory or the repository
SourceName == <<"r">>

\* runAnalyze up to the analysis: the flags are validated, the analyzer is
\* chosen by the kind of source, and Analyze runs
RunAnalyze ==
    /\ pc = "start"
    /\ IF format \notin {"tree", "yaml", "json"}
       THEN /\ gerr' = Errorf("invalid format: %s (must be tree, yaml, or json)", <<format>>)
            /\ pc' = "done"
            /\ UNCHANGED <<nodes, result, perr>>
       ELSE IF input.maxDepth < 1
       THEN /\ gerr' = Errorf("max-depth must be at least 1", <<>>)
            /\ pc' = "done"
            /\ UNCHANGED <<nodes, result, perr>>
       ELSE IF ~input.reachable
       THEN /\ perr' = Errorf(IF input.kind = "github" THEN "failed to fetch repository: %w"
                              ELSE "cannot access source: %w", <<>>)
            /\ gerr' = Errorf("analysis failed: %w", <<>>)
            /\ pc' = "done"
            /\ UNCHANGED <<nodes, result>>
       ELSE LET r == IF input.kind = "github"
                     THEN GitHubAnalyze(SourceName, Listing(input.tree, <<>>))
                     ELSE LocalAnalyze(SourceName, input.tree, input.maxDepth)
            IN /\ nodes' = r.nodes
               /\ result' = r.res
               /\ pc' = "analyzed"
               /\ UNCHANGED <<perr, gerr>>
    /\ UNCHANGED <<goos, format, input, indentSize, verr, fs0, fs, todo, phase,
                   run, first, raced, out>>

\* runAnalyze: the raw structure is exported with ToTreeSimple, which sorts
\* the forest in place
ExportRaw ==
    /\ pc = "analyzed"
    /\ \E sorted \in sortedForests(nodes) :
          /\ nodes' = sorted
          /\ out' = [out EXCEPT !.raw = writeSimpleTree(sorted, 0)]
    /\ pc' = "raw"
    /\ UNCHANGED <<goos, format, input, indentSize, perr, verr, fs0, fs, todo,
                   phase, result, gerr, run, first, raced>>

\* a command that fails when the service cannot be used
fallBackFailing(raw) == [text |-> <<>>, err |-> Errorf("AI analysis failed: %v", <<>>)]

\* runAnalyze: what is printed and returned when the service cannot be used
fallBack(raw) == [text |-> raw, err |-> NoErr]

\* runAnalyze with NewGeminiClient: without GEMINI_API_KEY there is no client
\* and the command falls back to the raw structure
NewGeminiClient ==
    /\ pc = "raw"
    /\ IF ~input.key
       THEN /\ phase' = "nokey"
            /\ out' = [out EXCEPT !.text = fallBack(out.raw).text]
            /\ gerr' = fallBack(out.raw).err
            /\ pc' = "done"
       ELSE /\ pc' = "client"
            /\ UNCHANGED <<phase, out, gerr>>
    /\ UNCHANGED <<goos, format, input, indentSize, nodes, perr, verr, fs0, fs,
                   todo, result, run, first, raced>>

\* runAnalyze with ExtractSkeleton: the call to the service fails in one of
\* the ways of callGeminiAPI, or answers with a text that is cleaned
ExtractSkeleton ==
    /\ pc = "client"
    /\ \/ \E failure \in {"transport", "read", "status", "parse", "apierror",
                          "nocandidates"} :
             /\ phase' = failure
             /\ out' = [out EXCEPT !.text = fallBack(out.raw).text]
             /\ gerr' = fallBack(out.raw).err
             /\ pc' = "done"
       \/ \E response \in APIResponses :
             /\ phase' = "ok"
             /\ out' = [out EXCEPT !.response = response,
                                   !.skeleton = extractSkeletonFromResponse(response)]
             /\ pc' = "skeleton"
             /\ UNCHANGED gerr
    /\ UNCHANGED <<goos, format, input, indentSize, nodes, perr, verr, fs0, fs,
                   todo, result, run, first, raced>>

\* runAnalyze: the skeleton is printed for the tree format and the exported
\* forest for json, followed by a newline when the text does not end in one
PrintOutput ==
    /\ pc = "skeleton"
    /\ IF format = "tree"
       THEN /\ out' = [out EXCEPT !.text =
                          IF HasSuffix(out.skeleton, <<NL>>) THEN out.skeleton
                          ELSE out.skeleton \o <<NL>>]
            /\ UNCHANGED nodes
       ELSE \E sorted \in sortedForests(nodes) :
               /\ nodes' = sorted
               /\ out' = [out EXCEPT !.text =
                             Append(Marshal(JObject(nodesToMap(sorted))),
                                    Tok("newline", <<>>))]
    /\ gerr' = NoErr
    /\ pc' = "done"
    /\ UNCHANGED <<goos, format, input, indentSize, perr, verr, fs0, fs, todo,
                   phase, result, run, first, raced>>

NextAnalyze ==
    \/ RunAnalyze
    \/ ExportRaw
    \/ NewGeminiClient
    \/ ExtractSkeleton
    \/ PrintOutput

SpecAnalyze == InitAnalyze /\ [][NextAnalyze]_vars

----------------------------------------------------------------------------
(* Claims about the generator and the build command (Spec)                 *)

InSeq(x, seq) == \E i \in 1..Len(seq) : seq[i] = x

\* the path Generate computes for the node with indices ip
TargetPath(ip) == fullPathOf(nodes, ip, targetAbs)

NodeSet == {AllNodes(nodes)[i] : i \in 1..Len(AllNodes(nodes))}

Failed(ip) == \E i \in 1..Len(result.Errors) : result.Errors[i].Args = <<TargetPath(ip)>>

Attempted(ip) ==
    \/ InSeq(TargetPath(ip), result.CreatedPaths)
    \/ InSeq(TargetPath(ip), result.SkippedPaths)
    \/ Failed(ip)

LaterSiblings(ip) ==
    {s \in NodeSet : /\ Len(s) = Len(ip)
                     /\ SubSeq(s, 1, Len(s) - 1) = SubSeq(ip, 1, Len(ip) - 1)
                     /\ s[Len(s)] > ip[Len(ip)]}

EmptyTarget(disk) == DOMAIN disk = {<<>>, <<tElem>>} /\ disk[<<tElem>>] = "dir"

\* C1: Generate is idempotent.  After a second run on the same forest, the
\* first having started on an empty target directory and nothing else having
\* written to it, no entry is reported created, every node of the forest is
\* reported skipped, and the filesystem is what the first run left.
C1_Idempotent ==
    (pc = "done" /\ run = 2 /\ EmptyTarget(first.fs0) /\ raced = {})
        => /\ result.Created = 0
           /\ result.CreatedPaths = <<>>
           /\ result.Skipped = CountNodes(nodes)
           /\ \A ip \in NodeSet : InSeq(TargetPath(ip), result.SkippedPaths)
           /\ fs = first.fs

\* C2: generation is best-effort at every depth.  When Generate has returned
\* and the operation for a node failed, every later sibling of that node in
\* the same children list was processed, and Generate returned an error.
C2_BestEffort ==
    pc = "done"
        => \A ip \in NodeSet :
              Failed(ip) => /\ gerr # NoErr
                            /\ \A s \in LaterSiblings(ip) : Attempted(s)

FileRaces ==
    {r \in raced : /\ r.run = run
                   /\ pc \in {"generating", "done"}
                   /\ r.kind = "file"
                   /\ ~NodeAt(nodes, r.ip).IsDir}

\* C4: a file that another process creates at a file node's path between the
\* existence check and the exclusive create makes the node a skipped one: it
\* is listed as skipped and not as created, no error is recorded for it, the
\* file stays as the other process made it, and the next sibling is processed.
C4_RaceIsSkip ==
    \A r \in FileRaces :
       \/ (todo # <<>> /\ Head(todo) = r.ip /\ phase = "create")
       \/ /\ InSeq(TargetPath(r.ip), result.SkippedPaths)
          /\ ~InSeq(TargetPath(r.ip), result.CreatedPaths)
          /\ ~Failed(r.ip)
          /\ fs[Elems(TargetPath(r.ip))] = "file"
          /\ \A s \in LaterSiblings(r.ip) :
                s[Len(s)] = r.ip[Len(r.ip)] + 1 => (InSeq(s, todo) \/ Attempted(s))

\* C4's case: the raced file node has been handled and a sibling after it too
C4_Witness ==
    \E r \in FileRaces :
       /\ InSeq(TargetPath(r.ip), result.SkippedPaths)
       /\ \E s \in LaterSiblings(r.ip) : InSeq(TargetPath(s), result.CreatedPaths)

\* C5: the stages run in the order parse, validate, generate; Generate is
\* entered only from a forest that parsed and that Validate accepted; and a
\* command that stops at parsing or validation has created nothing.
C5_StageOrder ==
    [][/\ (pc' = "parsed" /\ pc # "parsed") => pc = "start"
       /\ (pc' = "validated" /\ pc # "validated") => (pc = "parsed" /\ perr = NoErr)
       /\ (pc' \in {"generating", "done"} /\ pc \notin {"generating", "done"})
             => /\ pc = "validated"
                /\ Parse(input, format, indentSize).err = NoErr
                /\ Validate(Parse(input, format, indentSize).nodes, goos).err = NoErr
       /\ pc' = "failed" => (fs' = fs0 /\ result' = NewResult)
       /\ pc \in {"start", "parsed", "failed"} => fs' = fs]_vars

\* C5's case: validation failed and the target is as the command found it
C5_Witness == pc = "failed" /\ perr = NoErr /\ verr # NoErr /\ fs = fs0

----------------------------------------------------------------------------
(* Claims about the validator (SpecTree)                                   *)

\* Validate has been called on the parsed forest
ValidateRan == perr = NoErr /\ pc \in {"validated", "failed"}

Order == AllNodes(nodes)

\* the full path Validate recomputes for a node, as the platform compares it
ComparedPath(ip) ==
    LET path == fullPathOf(nodes, ip, <<>>)
    IN IF goos = "windows" THEN ToLower(path) ELSE path

\* positions, in pre-order, of the nodes whose path an earlier node has too
SecondOccurrences ==
    {j \in 1..Len(Order) :
        \E i \in 1..(j - 1) : ComparedPath(Order[i]) = ComparedPath(Order[j])}

FirstSecondOccurrence ==
    CHOOSE j \in SecondOccurrences : \A k \in SecondOccurrences : j <= k

IsDuplicateErrorAt(err, ip) ==
    /\ err.kind = "ValidationError"
    /\ err.Type = "ErrorDuplicatePath"
    /\ err.Path = fullPathOf(nodes, ip, <<>>)

TraversalName(name) == name = <<DOT, DOT>> \/ HasPrefix(name, <<DOT, DOT, SLASH>>)

\* the node breaks a rule that Validate checks before it looks for duplicates
BreaksOtherRule(ip) ==
    LET name == NodeAt(nodes, ip).Name
    IN \/ name = <<>>
       \/ TraversalName(name)
       \/ \E i \in 1..Len(name) : CharCode(name[i]) < 32
       \/ goos = "windows" /\ \/ \E i \in 1..Len(name) : InSeq(name[i], forbiddenChars)
                              \/ name[Len(name)] \in {DOT, SP}
                              \/ validateWindowsReservedNames(name) # ""
       \/ Len(fullPathOf(nodes, ip, <<>>)) >
             (IF goos = "windows" THEN maxPathWindows ELSE maxPathUnix)

\* C6 as stated: whenever two nodes of the forest have the same full path,
\* Validate returns a duplicate-path error at the second occurrence.
C6_DuplicateAlways ==
    (ValidateRan /\ SecondOccurrences # {})
        => IsDuplicateErrorAt(verr, Order[FirstSecondOccurrence])

\* C6, amended: when two nodes of the forest have the same full path and no
\* node up to the first second occurrence in pre-order breaks another rule,
\* Validate returns a duplicate-path error whose path is that occurrence's.
C6_DuplicateFirst ==
    (/\ ValidateRan
     /\ SecondOccurrences # {}
     /\ \A j \in 1..FirstSecondOccurrence : ~BreaksOtherRule(Order[j]))
        => IsDuplicateErrorAt(verr, Order[FirstSecondOccurrence])

\* C6's case: the duplicate is a nested node, met after its first occurrence
\* and before a node that breaks another rule
C6_Witness ==
    /\ ValidateRan
    /\ SecondOccurrences # {}
    /\ \A j \in 1..FirstSecondOccurrence : ~BreaksOtherRule(Order[j])
    /\ \E j \in 1..Len(Order) : j > FirstSecondOccurrence /\ BreaksOtherRule(Order[j])
    /\ verr.Type = "ErrorDuplicatePath"

\* C7 as stated: a forest without duplicate paths and without path-traversal
\* names passes Validate.
C7_NoDupNoTraversal ==
    (/\ ValidateRan
     /\ SecondOccurrences = {}
     /\ \A ip \in NodeSet : ~TraversalName(NodeAt(nodes, ip).Name))
        => verr = NoErr

\* C7, amended: a forest without duplicate paths in which no node breaks
\* another rule (empty name, traversal name, control or forbidden character,
\* reserved name, path length) passes Validate.
C7_CleanForestPasses ==
    (/\ ValidateRan
     /\ SecondOccurrences = {}
     /\ \A ip \in NodeSet : ~BreaksOtherRule(ip))
        => verr = NoErr

\* C7's case: a forest of several nodes, one nested, that Validate accepted
C7_Witness ==
    /\ pc = "validated"
    /\ verr = NoErr
    /\ \E ip \in NodeSet : Len(ip) > 1
    /\ Len(nodes) > 1

----------------------------------------------------------------------------
(* Claims about the indentation parser and the exporter (SpecTree)         *)

Parsed == pc # "start" /\ format = "plain-text"

\* the indentation character a line of the input starts with, 0 if none
IndentCharOf(line) == IF line # <<>> /\ line[1] \in {SP, TAB} THEN CharCode(line[1]) ELSE 0

\* lines that start with an indentation character other than one used before
Mismatches(text) ==
    {j \in 1..Len(text) :
        /\ IndentCharOf(text[j]) # 0
        /\ \E i \in 1..(j - 1) : IndentCharOf(text[i]) \notin {0, IndentCharOf(text[j])}}

FirstMismatch(text) == CHOOSE j \in Mismatches(text) : \A k \in Mismatches(text) : j <= k

\* C8: an input that indents one line with spaces and another with tabs fails
\* with an IndentationError at the first line whose indentation character
\* differs from the one used before it (inputs that fail at an earlier line
\* aside), whatever the indent width.
C8_MixedAcrossLines ==
    (/\ Parsed
     /\ Mismatches(input) # {}
     /\ (perr = NoErr \/ perr.Line >= FirstMismatch(input)))
        => (perr.kind = "IndentationError" /\ perr.Line = FirstMismatch(input))

\* the lines the first pass keeps, and the width buildTree divides by
KeptLines == readLines(input, 1, <<>>).lines

WidthUsed ==
    IF indentSize <= 0
    THEN detectIndentation(NewPlainTextParser(indentSize), KeptLines).IndentWidth
    ELSE indentSize

DepthOfKept(i) == KeptLines[i].indent \div WidthUsed

JumpFormat == "invalid indentation: jumped from level %d to %d (can only increase by 1)"

\* kept lines whose depth is more than one above the depth of the line before
Jumps ==
    {i \in 2..Len(KeptLines) :
        /\ \A k \in 1..i : KeptLines[k].indent % WidthUsed = 0
        /\ DepthOfKept(i) > DepthOfKept(i - 1) + 1}

\* C9: a line more than one level deeper than the line before it makes the
\* parse fail, and the error of such a jump names the level of the line
\* before and the level of the offending line.
C9_JumpMessage ==
    (Parsed /\ readLines(input, 1, <<>>).err = NoErr)
        => /\ Jumps # {} => perr # NoErr
           /\ (perr.kind = "ParseError" /\ perr.Message = JumpFormat)
                 => \E i \in Jumps :
                       /\ KeptLines[i].lineNum = perr.Line
                       /\ perr.Args = <<DepthOfKept(i - 1), DepthOfKept(i)>>

\* two sibling lists with the same names, directory flags and child
\* structure, whatever the order of the siblings
RECURSIVE SameUpToOrder(_, _)
SameUpToOrder(xs, ys) ==
    /\ Len(xs) = Len(ys)
    /\ \E f \in Permutations(1..Len(xs)) :
          \A i \in 1..Len(xs) :
             /\ xs[i].Name = ys[f[i]].Name
             /\ xs[i].IsDir = ys[f[i]].IsDir
             /\ SameUpToOrder(xs[i].Children, ys[f[i]].Children)

\* C10: the simple export of a forest parsed from an indentation-form input
\* parses again, with width 2, to a forest with the same names, directory
\* flags and child structure up to the order of siblings.
C10_RoundTrip ==
    (pc = "reparsed" /\ format = "plain-text")
        => /\ out.err = NoErr
           /\ SameUpToOrder(out.nodes, Parse(input, format, indentSize).nodes)

\* C10's case: a nested forest whose export changed the order of siblings
C10_Witness ==
    /\ pc = "reparsed"
    /\ format = "plain-text"
    /\ \E ip \in NodeSet : Len(ip) > 1
    /\ \E i \in 1..Len(nodes) :
          nodes[i].Name # Parse(input, format, indentSize).nodes[i].Name

----------------------------------------------------------------------------
(* Claims about the renderings (SpecExport)                                *)

\* the forest the parser returned, before any export has touched it
ParsedForest == Parse(input, format, indentSize).nodes

\* the same names, directory flags and child structure, in the same order
RECURSIVE SameForest(_, _)
SameForest(xs, ys) ==
    /\ Len(xs) = Len(ys)
    /\ \A i \in 1..Len(xs) :
          /\ xs[i].Name = ys[i].Name
          /\ xs[i].IsDir = ys[i].IsDir
          /\ SameForest(xs[i].Children, ys[i].Children)

\* the map holds, for every node of the list, a nested map for a directory
\* with children, an empty map for a directory without and null for a file
RECURSIVE RenderedAsMap(_, _)
RenderedAsMap(list, m) ==
    \A i \in 1..Len(list) :
       /\ list[i].Name \in DOMAIN m
       /\ IF ~list[i].IsDir THEN m[list[i].Name] = JNull
          ELSE /\ m[list[i].Name].t = "object"
               /\ (DOMAIN m[list[i].Name].m = {}) <=> (list[i].Children = <<>>)
               /\ RenderedAsMap(list[i].Children, m[list[i].Name].m)

\* C11: for a forest the JSON parser produced, ToJSON writes directories
\* with children as nested maps, directories without children as empty maps
\* and files as null, and parsing the JSON text again returns a forest with
\* the same names, directory flags, child structure and order.
C11_MapRoundTrip ==
    /\ (pc = "exportedJSON" /\ format = "JSON")
          => RenderedAsMap(ParsedForest, Unmarshal(out.text).m)
    /\ (pc = "reparsedJSON" /\ format = "JSON")
          => (out.err = NoErr /\ SameForest(out.nodes, ParsedForest))

\* C11's case: a forest with a nested empty directory and a nested file,
\* whose siblings the export reordered, has been exported and parsed again
C11_Witness ==
    /\ pc = "reparsedJSON"
    /\ format = "JSON"
    /\ nodes # ParsedForest
    /\ \E ip \in NodeSet : Len(ip) > 1 /\ ~NodeAt(nodes, ip).IsDir
    /\ \E ip \in NodeSet :
          Len(ip) > 1 /\ NodeAt(nodes, ip).IsDir /\ NodeAt(nodes, ip).Children = <<>>

\* the members of the JSON object that starts after its opening brace, in
\* the order the text has them: name, kind and members of each
RECURSIVE WrittenMembers(_, _)
WrittenMembers(toks, acc) ==
    IF Head(toks).tok = "}" THEN [list |-> acc, rest |-> Tail(toks)]
    ELSE IF Head(toks).tok = "," THEN WrittenMembers(Tail(toks), acc)
    ELSE LET name == Head(toks).s
             value == Tail(Tail(toks))
         IN IF Head(value).tok = "null"
            THEN WrittenMembers(Tail(value),
                    Append(acc, [Name |-> name, IsDir |-> FALSE, Children |-> <<>>]))
            ELSE LET sub == WrittenMembers(Tail(value), <<>>)
                 IN WrittenMembers(sub.rest,
                       Append(acc, [Name |-> name, IsDir |-> TRUE,
                                    Children |-> sub.list]))

\* the names of the lines of a text, without the directory slash
RECURSIVE LineNames(_)
LineNames(lines) ==
    IF lines = <<>> THEN <<>>
    ELSE <<TrimSuffix(TrimSpace(Head(lines)), <<SLASH>>)>> \o LineNames(Tail(lines))

\* the names of a forest in pre-order
RECURSIVE PreOrderNames(_)
PreOrderNames(list) ==
    IF list = <<>> THEN <<>>
    ELSE <<Head(list).Name>> \o PreOrderNames(Head(list).Children)
         \o PreOrderNames(Tail(list))

\* directories before files and, within a kind, names in case-insensitive
\* order, at every level
RECURSIVE InExportOrder(_)
InExportOrder(list) ==
    /\ \A i, j \in 1..Len(list) :
          i < j => /\ ~(list[j].IsDir /\ ~list[i].IsDir)
                   /\ (list[i].IsDir = list[j].IsDir)
                         => ~StrLess(ToLower(list[j].Name), ToLower(list[i].Name))
    /\ \A i \in 1..Len(list) : InExportOrder(list[i].Children)

\* the siblings as the rendering has them, level by level
WrittenForest ==
    IF pc = "exportedJSON" THEN WrittenMembers(Tail(out.text), <<>>).list
    ELSE nodes

\* C12: in the tree view, the simple view and the JSON rendering the
\* siblings of every level are written directories first and, within a
\* kind, in case-insensitive order of name.
C12_ExportOrder ==
    /\ pc \in {"exported", "exportedTree"}
          => /\ InExportOrder(nodes)
             /\ SameUpToOrder(nodes, ParsedForest)
             /\ LineNames(scanLines(out.text, <<>>)) = PreOrderNames(nodes)
    /\ pc = "exportedJSON" => InExportOrder(WrittenForest)

\* C13: after ToTree, ToTreeSimple or ToJSON has returned, the forest is as
\* it was before the call: every name, directory flag and path, and the
\* order of the root list and of every children list.
C13_ExportReadOnly ==
    pc \in {"exported", "exportedTree", "exportedJSON"} => nodes = ParsedForest

\* the node with indices ip is the last of its parent's children
IsLastSibling(ip) ==
    ip[Len(ip)] = Len(NodeAt(nodes, SubSeq(ip, 1, Len(ip) - 1)).Children)

WrittenName(ip) ==
    IF NodeAt(nodes, ip).IsDir THEN NodeAt(nodes, ip).Name \o <<SLASH>>
    ELSE NodeAt(nodes, ip).Name

\* the end of the line of a node below the roots: its branch marker and name
MarkedName(ip) ==
    (IF IsLastSibling(ip) THEN <<ELBOW>> ELSE <<TEE>>) \o <<HBAR, HBAR, SP>>
        \o WrittenName(ip)

\* C14: in the text ToTree returns, the line of every node below the roots
\* ends with the tee marker (not the last sibling) or the elbow marker (the
\* last sibling) and the name, after one four-character segment per level
\* between the node and its root; the lines of root nodes hold the name only.
C14_BranchMarkers ==
    pc = "exportedTree" =>
        LET lines == scanLines(out.text, <<>>)
        IN /\ Len(lines) = Len(Order)
           /\ \A i \in 1..Len(Order) :
                 LET ip == Order[i]
                 IN IF Len(ip) = 1 THEN lines[i] = WrittenName(ip)
                    ELSE /\ Len(lines[i]) = 4 * (Len(ip) - 2) + Len(MarkedName(ip))
                         /\ HasSuffix(lines[i], MarkedName(ip))

----------------------------------------------------------------------------
(* Claims about the map parsers (SpecExport)                               *)

MapParsed == pc \in {"parsed", "failed"} /\ format \in {"JSON", "YAML"}

\* the keys of a map in lexicographic order
KeysInOrder(S) ==
    CHOOSE q \in [1..Cardinality(S) -> S] :
        \A i, j \in 1..Cardinality(S) : i < j => StrLess(q[i], q[j])

IsFileValue(v) == v.t = "null" \/ (v.t = "string" /\ v.s = <<>>)

\* the forest the stated rule gives for a map, key by key in sorted order,
\* or the first key whose value is neither a map nor null nor ""; maps is
\* the set of the kinds of value that count as a nested map
RECURSIVE Classified(_, _)
RECURSIVE ClassifiedFrom(_, _, _, _, _)
ClassifiedFrom(m, keys, i, acc, maps) ==
    IF i > Len(keys) THEN [ok |-> TRUE, nodes |-> acc, key |-> <<>>]
    ELSE LET v == m[keys[i]]
             sub == IF v.t = "object" THEN Classified(v.m, maps)
                    ELSE [ok |-> TRUE, nodes |-> <<>>, key |-> <<>>]
         IN IF v.t \in maps
            THEN IF ~sub.ok THEN sub
                 ELSE ClassifiedFrom(m, keys, i + 1,
                         Append(acc, [Name |-> keys[i], IsDir |-> TRUE,
                                      Children |-> sub.nodes]), maps)
            ELSE IF IsFileValue(v)
            THEN ClassifiedFrom(m, keys, i + 1,
                    Append(acc, [Name |-> keys[i], IsDir |-> FALSE,
                                 Children |-> <<>>]), maps)
            ELSE [ok |-> FALSE, nodes |-> <<>>, key |-> keys[i]]

Classified(m, maps) == ClassifiedFrom(m, KeysInOrder(DOMAIN m), 1, <<>>, maps)

ParsedAs(e) ==
    IF e.ok THEN perr = NoErr /\ SameForest(nodes, e.nodes)
    ELSE perr # NoErr /\ nodes = <<>> /\ perr.Args = <<e.key>>

\* C15 as stated: the JSON and YAML parsers visit the keys of every map in
\* sorted order; every nested map makes the key a directory with the children
\* parsed from it, null or "" makes it a file, and the first key with any
\* other value makes the parse fail with an error naming that key and no
\* nodes.
C15_EveryMapIsDirectory ==
    (MapParsed /\ input.t = "object")
        => ParsedAs(Classified(input.m, {"object", "gmap"}))

\* C15, amended: as stated for nested maps whose keys are all strings (every
\* JSON object is one); a YAML map with a key that is not a string is one of
\* the other values, and the parse fails with an error naming the key that
\* holds it.
C15_ClassifyByValue ==
    (MapParsed /\ input.t = "object")
        => ParsedAs(Classified(input.m, {"object"}))

\* C15's case: a YAML document with a key holding "" and a key holding a
\* nested map has been parsed to a file and a directory with children
C15_Witness ==
    /\ pc = "parsed"
    /\ format = "YAML"
    /\ input.t = "object"
    /\ \E k \in DOMAIN input.m : input.m[k].t = "string" /\ input.m[k].s = <<>>
    /\ \E i \in 1..Len(nodes) : nodes[i].IsDir /\ Len(nodes[i].Children) = 2
    /\ \E i \in 1..Len(nodes) : ~nodes[i].IsDir

\* C16 as stated: the parsers return a forest only when the decoded root
\* is a map; an array or scalar root fails with an error and no nodes.
C16_RootMustBeMap ==
    MapParsed =>
        /\ perr = NoErr => input.t \in {"object", "gmap"}
        /\ input.t \notin {"object", "gmap"} => (perr # NoErr /\ nodes = <<>>)

\* C16, amended: the parsers return nodes only when the decoded root is a
\* map; a null root (an empty document) gives the empty forest and no error;
\* an array root, any other scalar root and a YAML root map with a key that
\* is not a string fail with an error and no nodes.
C16_RootMapOrNull ==
    MapParsed =>
        /\ input.t = "null" => (perr = NoErr /\ nodes = <<>>)
        /\ input.t \notin {"object", "null"} => (perr # NoErr /\ nodes = <<>>)
        /\ nodes # <<>> => input.t = "object"

\* C16's case: a document whose root is an array has been rejected
C16_Witness ==
    /\ pc = "failed"
    /\ format \in {"JSON", "YAML"}
    /\ input.t = "array"
    /\ perr # NoErr

----------------------------------------------------------------------------
(* Claims about the result of Generate (Spec)                              *)

FailedNodes == {ip \in NodeSet : Failed(ip)}

\* C20: when Generate has returned, the error list of the Result holds one
\* entry per node whose filesystem operation failed, and the count in the
\* error Generate returns is the number of those nodes.
C20_OneErrorPerFailedNode ==
    pc = "done"
        => /\ Len(result.Errors) = Cardinality(FailedNodes)
           /\ FailedNodes # {} => gerr.Args = <<Cardinality(FailedNodes)>>

----------------------------------------------------------------------------
(* Claims about the analyze command (SpecAnalyze)                          *)

\* the failures of the generalization service the command has to survive
ServiceFailures == {"nokey", "transport", "status", "apierror", "nocandidates"}

\* C17: whenever the AI generalization collaborator fails (no client, a
\* transport error, a status other than 200, an API error, an empty list of
\* candidates), the command prints the raw simple-tree rendering of the
\* analyzed forest and completes without error.
C17_FallBackToRaw ==
    (pc = "done" /\ phase \in ServiceFailures)
        => /\ out.text = writeSimpleTree(nodes, 0)
           /\ gerr = NoErr

\* C17's case: the service answered with a status other than 200 after a
\* forest with a node below the root was analyzed, and the command is done
C17_Witness ==
    /\ pc = "done"
    /\ phase = "status"
    /\ nodes # <<>>
    /\ nodes[1].Children # <<>>
    /\ out.text # <<>>

\* the names of a list, lower-cased
Lowered(list) == {ToLower(list[i]) : i \in 1..Len(list)}

\* whether a lower-cased name is on the dot-file allowlist or is one of its
\* names followed by a dot-separated extension
OnAllowlist(lower) ==
    \E a \in Lowered(allowedDotFiles) : lower = a \/ HasPrefix(lower, a \o <<DOT>>)

\* the first of the seven policy rules a name meets, 0 when it meets none
RuleOf(name, isDir) ==
    LET lower == ToLower(name)
    IN IF name = <<>> THEN 1
       ELSE IF isDir /\ lower \in Lowered(ignoreDirs) THEN 2
       ELSE IF ~isDir /\ lower \in Lowered(ignoreFiles) THEN 3
       ELSE IF ~isDir /\ \E e \in Lowered(ignoreExtensions) : HasSuffix(lower, e) THEN 4
       ELSE IF name[1] = DOT THEN 5
       ELSE IF name[1] \in {"~", HASH} THEN 6
       ELSE IF ~isDir /\ \E m \in Lowered(minifiedMarks) : ContainsStr(lower, m) THEN 7
       ELSE 0

\* what the policy decides: the first rule met decides, rule 5 keeps the
\* files of the allowlist, and a name that meets no rule is kept
PolicyFilters(name, isDir) ==
    LET rule == RuleOf(name, isDir)
    IN IF rule = 0 THEN FALSE
       ELSE IF rule = 5 THEN isDir \/ ~OnAllowlist(ToLower(name))
       ELSE TRUE

\* the analysis has run on a source whose entries are all at the top level
FlatAnalyzed ==
    /\ pc = "analyzed"
    /\ \A i \in 1..Len(input.tree) : input.tree[i].Children = <<>>

\* an entry of the source is a child of the root node of the forest
KeptEntry(e) ==
    /\ nodes # <<>>
    /\ \E i \in 1..Len(nodes[1].Children) :
          /\ nodes[1].Children[i].Name = e.Name
          /\ nodes[1].Children[i].IsDir = e.IsDir

RECURSIVE NodePaths(_, _)
NodePaths(list, prefix) ==
    UNION {{<<Append(prefix, list[i].Name), list[i].IsDir>>}
             \cup NodePaths(list[i].Children, Append(prefix, list[i].Name)) :
           i \in 1..Len(list)}

\* the forest a filtered walk of the same tree builds with the --max-depth
\* of the run
WalkedForest == LocalAnalyze(SourceName, input.tree, input.maxDepth).nodes

\* C19: the forest built from a remote flat listing holds only nodes the
\* filtered live walk of the same tree builds: no node the Filter excludes,
\* no node below an excluded directory, no node deeper than the configured
\* maximum depth.
C19_ListingAsWalk ==
    (pc = "analyzed" /\ input.kind = "github")
        => NodePaths(nodes, <<>>) \subseteq NodePaths(WalkedForest, <<>>)

----------------------------------------------------------------------------
(* Claims about the walk of Validate (SpecTree)                            *)

\* positions, in pre-order, of the nodes that violate a rule: one of their
\* own, or the path of a node met before them
FailingPositions ==
    {j \in 1..Len(Order) : BreaksOtherRule(Order[j]) \/ j \in SecondOccurrences}

Least(S) == CHOOSE j \in S : \A k \in S : j <= k

\* the path Validate was given as the parent's when it reached the node
ParentPathOf(ip) ==
    IF Len(ip) = 1 THEN <<>> ELSE fullPathOf(nodes, SubSeq(ip, 1, Len(ip) - 1), <<>>)

\* the type and the path of the violation of a node, by the order of the rules
ViolationOf(ip) ==
    LET name == NodeAt(nodes, ip).Name
        path == fullPathOf(nodes, ip, <<>>)
        windows == goos = "windows"
    IN IF name = <<>>
       THEN [Type |-> "ErrorInvalidCharacters", Path |-> ParentPathOf(ip)]
       ELSE IF TraversalName(name)
       THEN [Type |-> "ErrorPathTraversal", Path |-> path]
       ELSE IF \/ \E i \in 1..Len(name) : CharCode(name[i]) < 32
               \/ windows /\ \E i \in 1..Len(name) : InSeq(name[i], forbiddenChars)
               \/ windows /\ name[Len(name)] \in {DOT, SP}
       THEN [Type |-> "ErrorInvalidCharacters", Path |-> path]
       ELSE IF windows /\ validateWindowsReservedNames(name) # ""
       THEN [Type |-> "ErrorReservedName", Path |-> path]
       ELSE IF Len(path) > (IF windows THEN maxPathWindows ELSE maxPathUnix)
       THEN [Type |-> "ErrorPathTooLong", Path |-> path]
       ELSE [Type |-> "ErrorDuplicatePath", Path |-> path]

\* the errors the walk of the parsed forest recorded, in the order it
\* recorded them
ErrorsOfWalk == Validate(ParsedForest, goos).errors

\* C21: Validate walks the forest in pre-order, and the error it returns is
\* the violation of the first node in that order that violates a rule; it
\* returns nil exactly when no node does, and the errors the walk records
\* after the first one do not replace it.
C21_FirstInPreOrder ==
    ValidateRan
        => LET failing == FailingPositions
           IN /\ (failing = {}) <=> (verr = NoErr)
              /\ failing # {}
                    => LET violation == ViolationOf(Order[Least(failing)])
                       IN /\ verr.kind = "ValidationError"
                          /\ verr.Type = violation.Type
                          /\ verr.Path = violation.Path
                          /\ verr = ErrorsOfWalk[1]

\* C21's case: the walk recorded two errors of different types, the first
\* of them at a nested node, and returned the first
C21_Witness ==
    /\ ValidateRan
    /\ verr # NoErr
    /\ LET walk == ErrorsOfWalk
           failing == FailingPositions
       IN /\ Len(walk) > 1
          /\ walk[2].Type # walk[1].Type
          /\ Len(Order[Least(failing)]) > 1
          /\ \E j \in failing : j > Least(failing)
          /\ verr = walk[1]

\* C22: after Validate returned nil, the path of a root node is its name and
\* the path of every other node is its parent's path, "/" and its own name.
C22_PathInvariant ==
    pc = "validated"
        => \A ip \in NodeSet :
              NodeAt(nodes, ip).Path =
                 IF Len(ip) = 1 THEN NodeAt(nodes, ip).Name
                 ELSE NodeAt(nodes, SubSeq(ip, 1, Len(ip) - 1)).Path
                         \o <<SLASH>> \o NodeAt(nodes, ip).Name

----------------------------------------------------------------------------
(* Claims about the tree the indentation parser builds (SpecTree)          *)

\* the forest is as the indentation parser returned it: no export has
\* sorted it
AsParsed == format = "plain-text" /\ pc \in {"parsed", "validated", "failed"}

\* the parser as buildTree runs it
ParserUsed == [IndentWidth |-> WidthUsed, AutoDetect |-> indentSize <= 0]

\* the depth of every line of a list, for an indent width
DepthsOf(lines, width) == [i \in 1..Len(lines) |-> lines[i].indent \div width]

\* the lines up to the i-th are indented by multiples of the width, the
\* first of them not at all, and none is more than one level below the line
\* before it
WellIndented(lines, width, i) ==
    /\ lines[1].indent = 0
    /\ \A k \in 1..i : lines[k].indent % width = 0
    /\ \A k \in 2..i : lines[k].indent \div width <= lines[k - 1].indent \div width + 1

\* the most recent line up to the i-th at depth d
LastAtDepth(depths, i, d) ==
    CHOOSE j \in 1..i : depths[j] = d /\ \A k \in (j + 1)..i : depths[k] # d

ParentLine(depths, i) == LastAtDepth(depths, i - 1, depths[i] - 1)

\* lines that are one level below a line that names a file
ChildrenOfFiles(lines, width) ==
    {i \in 2..Len(lines) :
        /\ WellIndented(lines, width, i)
        /\ lines[i].indent > 0
        /\ ~lines[ParentLine(DepthsOf(lines, width), i)].isDir}

\* the indices of the node of a forest that was made from line number n
NodeOfLine(forest, n) ==
    LET all == AllNodes(forest)
    IN all[CHOOSE k \in 1..Len(all) : NodeAt(forest, all[k]).Line = n]

\* buildTree's loop after each of the lines
StatesAfter(p, lines) ==
    [i \in 1..Len(lines) |->
        buildLoop(p, SubSeq(lines, 1, i), 1,
                  [roots |-> <<>>, stack |-> <<>>, err |-> NoErr])]

FileChildFormat == "cannot add children to file '%s' (only directories can have children)"

\* C23: in a forest the indentation parser returned, the node of a line at
\* depth d > 0 is a child of the node of the most recent line before it at
\* depth d-1, and the children of every node are in the order of their lines;
\* after each accepted line at depth d the stack holds d+1 entries, the
\* current node of each depth 0..d; and a line whose parent line names a file
\* makes the parse fail with the error that names the file, without a forest.
C23_TreeByDepth ==
    (AsParsed /\ KeptLines # <<>>)
        => LET kept == KeptLines
               depths == DepthsOf(kept, WidthUsed)
               ofLine == [i \in 1..Len(kept) |-> NodeOfLine(nodes, kept[i].lineNum)]
               after == StatesAfter(ParserUsed, kept)
               bad == ChildrenOfFiles(kept, WidthUsed)
           IN /\ perr = NoErr
                    => \A i \in 1..Len(kept) :
                          /\ Len(ofLine[i]) = depths[i] + 1
                          /\ depths[i] > 0
                                => SubSeq(ofLine[i], 1, depths[i]) = ofLine[ParentLine(depths, i)]
                          /\ \A j \in 1..(i - 1) :
                                (/\ Len(ofLine[j]) = Len(ofLine[i])
                                 /\ SubSeq(ofLine[j], 1, depths[j]) = SubSeq(ofLine[i], 1, depths[i]))
                                   => ofLine[j][Len(ofLine[j])] < ofLine[i][Len(ofLine[i])]
              /\ \A i \in 1..Len(kept) :
                    after[i].err = NoErr
                       => /\ Len(after[i].stack) = depths[i] + 1
                          /\ \A d \in 0..depths[i] :
                                /\ after[i].stack[d + 1].depth = d
                                /\ NodeAt(after[i].roots, after[i].stack[d + 1].node).Line
                                      = kept[LastAtDepth(depths, i, d)].lineNum
              /\ bad # {}
                    => /\ perr = NewParseError(kept[Least(bad)].lineNum, FileChildFormat,
                                   <<kept[ParentLine(depths, Least(bad))].content>>)
                       /\ nodes = <<>>

\* C23's case: a directory line got two children, and the stack held two
\* entries after a line at depth 1
C23_Witness ==
    /\ AsParsed
    /\ perr = NoErr
    /\ \E i \in 1..Len(nodes) : Len(nodes[i].Children) = 2
    /\ \E i \in 1..Len(KeptLines) :
          /\ KeptLines[i].indent \div WidthUsed = 1
          /\ Len(StatesAfter(ParserUsed, KeptLines)[i].stack) = 2

----------------------------------------------------------------------------
(* Claims about comment lines (SpecTree)                                   *)

IsCommentLine(line) == HasPrefix(TrimSpace(line), <<HASH>>)

WithoutComments(text) == SelectSeq(text, LAMBDA line : ~IsCommentLine(line))

\* two results of the parser that differ at most in their line numbers
SameResult(r, q) ==
    /\ SameForest(r.nodes, q.nodes)
    /\ IF r.err = NoErr \/ q.err = NoErr THEN r.err = q.err
       ELSE [r.err EXCEPT !.Line = 0] = [q.err EXCEPT !.Line = 0]

\* C24: a line whose trimmed content starts with '#' is dropped whatever its
\* leading whitespace: the input parses to the same forest, or fails with the
\* same error, as the input without its comment lines.
C24_CommentsDropped ==
    (Parsed /\ \E i \in 1..Len(input) : IsCommentLine(input[i]))
        => SameResult(PlainTextParse(input, indentSize),
                      PlainTextParse(WithoutComments(input), indentSize))

----------------------------------------------------------------------------
(* Claims about the cleaning of the service's answer (SpecAnalyze)         *)

IsFenceLine(line) == HasPrefix(TrimSpace(line), <<BACKTICK, BACKTICK, BACKTICK>>)

\* the lines of a text that are neither blank nor a fence, in their order,
\* without their leading bullet marker
ContentLines(text) ==
    LET kept == SelectSeq(SplitLinesAcc(text, <<>>),
                          LAMBDA line : TrimSpace(line) # <<>> /\ ~IsFenceLine(line))
    IN [i \in 1..Len(kept) |-> TrimPrefix(TrimPrefix(kept[i], <<"-", SP>>), <<"*", SP>>)]

\* C25: cleaning the answer of the service removes only fence lines, leading
\* bullet markers and blank lines: the skeleton holds every other line of the
\* answer, the lines between two fences included, in the original order.
C25_OnlyFencesRemoved ==
    (pc \in {"skeleton", "done"} /\ phase = "ok")
        => out.skeleton = TrimSpace(JoinLines(ContentLines(out.response)))

----------------------------------------------------------------------------
(* Claims about the message of an IndentationError (SpecTree)              *)

\* the line the error names mixes tabs and spaces in its leading whitespace
MixedLine == countIndent(input[perr.Line], perr.Line, 1, 0, 0).err # NoErr

\* C26: the message of an IndentationError tells its two causes apart for
\* every indent width and indentation: it carries the "cannot mix" wording
\* when the line mixes tabs and spaces, and never when the indentation is
\* not a multiple of the width.
C26_MessageByCause ==
    (Parsed /\ perr.kind = "IndentationError")
        => (MixedLine <=>
              IndentationErrorMessage(perr) = "inconsistent indentation: cannot mix %s and %s")

----------------------------------------------------------------------------
(* Claims about the paths Generate touches (Spec)                          *)

\* the path names an entry below the target directory
InsideTarget(path) == HasPrefix(Elems(path), <<tElem>>) /\ Len(Elems(path)) > 1

\* C27: for a forest that parsed and that Validate accepted, every path that
\* Generate records as created or skipped lies inside the target directory,
\* and so does every entry that Generate adds to the filesystem.
C27_InsideTarget ==
    pc \in {"generating", "done"}
        => /\ \A i \in 1..Len(result.CreatedPaths) : InsideTarget(result.CreatedPaths[i])
           /\ \A i \in 1..Len(result.SkippedPaths) : InsideTarget(result.SkippedPaths[i])
           /\ raced = {}
                 => \A e \in DOMAIN fs :
                       e \notin DOMAIN first.fs0 => (e = <<tElem>> \/ HasPrefix(e, <<tElem>>))

\* C28: when Generate returned a nil error, the target path of every node of
\* the forest is on disk with the kind the node declares, a directory for a
\* directory node and a regular file for a file node, whatever was in the
\* target before the call.
C28_KindsOnDisk ==
    (pc = "done" /\ gerr = NoErr)
        => \A ip \in NodeSet :
              Stat(fs, TargetPath(ip)) = IF NodeAt(nodes, ip).IsDir THEN "dir" ELSE "file"

----------------------------------------------------------------------------
(* Claims about the counters of the result (Spec)                          *)

\* the number of times a path is listed
Occurrences(path, seq) == Cardinality({i \in 1..Len(seq) : seq[i] = path})

\* C29: at every point of a Generate call and on return, Created is the
\* length of CreatedPaths and Skipped the length of SkippedPaths; and when the
\* call has returned with an empty error list, Created + Skipped is the
\* number of nodes of the forest and the path of every node is listed once,
\* in one of the two lists.
C29_Accounting ==
    /\ result.Created = Len(result.CreatedPaths)
    /\ result.Skipped = Len(result.SkippedPaths)
    /\ (pc = "done" /\ result.Errors = <<>>)
          => /\ result.Created + result.Skipped = CountNodes(nodes)
             /\ \A ip \in NodeSet :
                   Occurrences(TargetPath(ip), result.CreatedPaths)
                      + Occurrences(TargetPath(ip), result.SkippedPaths) = 1

----------------------------------------------------------------------------
(* Claims about concurrent writers to the target (Spec)                    *)

\* the entries another process made in this run, each at the path of a node
\* between the existence check for the node and its creation
RacesOfRun == {r \in raced : r.run = run /\ pc \in {"generating", "done"}}

\* C30: every path listed in CreatedPaths was brought into existence by this
\* call: an entry that another process created between the existence check
\* and the create operation is never counted or listed as created.
C30_CreatedByCall ==
    \A r \in RacesOfRun : ~InSeq(TargetPath(r.ip), result.CreatedPaths)

====
